---- MODULE Spec2Model ----
(***************************************************************************)
(* Model of the plugin generation orchestrator (plugin_generator.py):      *)
(* PluginGenerator.generate_plugin_flow ("start") and                      *)
(* PluginGenerator.continue_plugin_generation ("confirm"/"reject") run as  *)
(* asyncio tasks on one shared PluginGenerator instance.  A task runs      *)
(* atomically from one await to the next; every action below is one such   *)
(* segment.  Consecutive awaits with no write to shared state in between   *)
(* (a progress message followed by a model call) are one suspension.       *)
(* event.send is a suspension point that delivers the message and does not *)
(* raise; model, detector and install-client calls may raise.              *)
(***************************************************************************)
EXTENDS Integers, Sequences, FiniteSets, TLC

(* ---------------------------------------------------------------------- *)
(* Bounds                                                                  *)
(* ---------------------------------------------------------------------- *)
NumTasks == 2
MaxRetries == 1
MaxLoop == 1
MaxNameLen == 3

Tasks == 1..NumTasks
NoEvent == 0

(* ---------------------------------------------------------------------- *)
(* Program constants                                                       *)
(* ---------------------------------------------------------------------- *)
TotalSteps == 6
DefaultThreshold == 80
InnerRetries == 3

(* ---------------------------------------------------------------------- *)
(* Strings are sequences of one-character strings.                         *)
(* ---------------------------------------------------------------------- *)
UpperChars == {"A", "W", "Y"}
LowerChars == {"a", "b", "d", "e", "g", "i", "l", "m", "n", "o", "p", "r", "s", "t", "u", "w", "y"}
DigitChars == {"9"}
OtherChars == {"-"}

ToLower(c) ==
    IF c = "A" THEN "a" ELSE IF c = "W" THEN "w" ELSE IF c = "Y" THEN "y" ELSE c

IsWordChar(c) == c \in UpperChars \cup LowerChars \cup DigitChars \cup {"_"}

IsAlpha(c) == c \in UpperChars \cup LowerChars

NamespacePrefix == <<"a", "s", "t", "r", "b", "o", "t", "_", "p", "l", "u", "g", "i", "n", "_">>
PluginPrefix == <<"p", "l", "u", "g", "i", "n", "_">>
UnnamedPlugin == <<"u", "n", "n", "a", "m", "e", "d", "_", "p", "l", "u", "g", "i", "n">>
DefaultGeneratedName == NamespacePrefix \o <<"g", "e", "n", "e", "r", "a", "t", "e", "d">>

RECURSIVE StripNonWord(_)
StripNonWord(s) ==
    IF s = <<>> THEN <<>>
    ELSE IF IsWordChar(Head(s)) THEN <<Head(s)>> \o StripNonWord(Tail(s))
    ELSE StripNonWord(Tail(s))

(* str.lower(); the string is taken once and lowered character by         *)
(* character.                                                              *)
LowerCase(s) == CHOOSE r \in {[i \in 1..Len(x) |-> ToLower(x[i])] : x \in {s}} : TRUE

StartsWith(s, p) == Len(s) >= Len(p) /\ SubSeq(s, 1, Len(p)) = p

(* A variant of the sanitizer that keeps the case of the letters.          *)
sanitize_plugin_name_keeps_case(name) ==
    LET stripped == StripNonWord(name)
        lettered == IF stripped # <<>> /\ ~IsAlpha(stripped[1])
                    THEN PluginPrefix \o stripped ELSE stripped
    IN  IF lettered = <<>> THEN UnnamedPlugin ELSE lettered

sanitize_plugin_name(name) ==
    LET stripped == StripNonWord(name)
        lettered == IF stripped # <<>> /\ ~IsAlpha(stripped[1])
                    THEN PluginPrefix \o stripped ELSE stripped
        lowered  == LowerCase(lettered)
    IN  IF lowered = <<>> THEN UnnamedPlugin ELSE lowered

(* A variant that puts the namespace token in front of every name.        *)
NamespacedAlways(name) == NamespacePrefix \o name

Namespaced(name) ==
    IF StartsWith(name, NamespacePrefix) THEN name ELSE NamespacePrefix \o name

(* ---------------------------------------------------------------------- *)
(* Values exchanged with the collaborators                                 *)
(* ---------------------------------------------------------------------- *)
(* str.strip() for the blank                                              *)
RECURSIVE LStrip(_)
LStrip(s) == IF s # <<>> /\ Head(s) = " " THEN LStrip(Tail(s)) ELSE s

Reverse(s) == [i \in 1..Len(s) |-> s[Len(s) + 1 - i]]

Strip(s) == Reverse(LStrip(Reverse(LStrip(s))))

(* w in s                                                                  *)
Contains(s, w) == \E i \in 1..(Len(s) - Len(w) + 1) : SubSeq(s, i, i + Len(w) - 1) = w

(* A description is a string too.  H and K stand for the two characters of *)
(* the sensitive word at the head of the list in utils.py (line 28).       *)
Weather == <<"w", "e", "a", "t", "h", "e", "r">>
Descriptions == {Weather, <<"H", "K", "g", "j">>}

SensitiveWords == {<<"H", "K">>}

(* utils.validate_plugin_description (14-37)                               *)
validate_plugin_description(description) ==
    IF description = <<>> \/ Len(Strip(description)) < 5 THEN FALSE
    ELSE \A word \in SensitiveWords : ~Contains(LowerCase(description), word)
LLMNames == {<<"W">>, <<"9">>}
NoMarkdown == ""
Markdowns == {"md"}
NowStamp == "now"

NoMetadata == [name |-> <<>>, markdown |-> NoMarkdown]
NoReview ==
    [approved |-> FALSE, satisfaction_score |-> 0, reason |-> <<>>,
     issues |-> <<>>, suggestions |-> <<>>]

(* A value of a raw review map: <<"none">> (key missing or None),          *)
(* <<"bool", b>>, <<"num", n>>, <<"str", s>> (s the characters of the      *)
(* string), <<"list", seq>>.                                               *)
None == <<"none">>

Tag(v) == v[1]

(* Python truthiness                                                       *)
Truthy(v) ==
    CASE Tag(v) = "none" -> FALSE
      [] Tag(v) = "bool" -> v[2]
      [] Tag(v) = "num" -> v[2] # 0
      [] Tag(v) = "str" -> v[2] # <<>>
      [] Tag(v) = "list" -> v[2] # <<>>

(* Python's  a or b                                                        *)
Or(a, b) == IF Truthy(a) THEN a ELSE b

(* Line 134.  S M and P Q stand for the characters of the two tokens that  *)
(* are written in Chinese.                                                 *)
TruthyTokens ==
    {<<"t", "r", "u", "e">>, <<"y", "e", "s">>, <<"S", "M">>, <<"P", "Q">>,
     <<"a", "p", "p", "r", "o", "v", "e", "d">>}

(* A raw review map given by its English keys; the Chinese keys (agree_zh, *)
(* score_zh, reason_zh, issues_zh, suggestions_zh) are not in it.          *)
RawReview(approved, agree, satisfaction_score, score, reason, issues, suggestions) ==
    [approved |-> approved, agree |-> agree, satisfaction_score |-> satisfaction_score,
     score |-> score, reason |-> reason, issues |-> issues, suggestions |-> suggestions]

(* result.get(key)                                                         *)
Key(raw, key) == IF key \in DOMAIN raw THEN raw[key] ELSE None

(* float(s) and int(x) for strings in decimal notation                     *)
Digits == <<"0", "1", "2", "3", "4", "5", "6", "7", "8", "9">>

IsDigit(c) == \E i \in 1..Len(Digits) : Digits[i] = c

RECURSIVE Decimal(_)
Decimal(s) ==
    IF s = <<>> THEN 0
    ELSE Decimal(SubSeq(s, 1, Len(s) - 1)) * 10
         + (CHOOSE i \in 1..Len(Digits) : Digits[i] = s[Len(s)]) - 1

Unsigned(s) == IF s # <<>> /\ s[1] \in {"-", "+"} THEN Tail(s) ELSE s

Dots(s) == {i \in 1..Len(s) : s[i] = "."}

(* float(s) returns a finite number                                        *)
IsDecimal(s) ==
    LET u == Unsigned(Strip(s))
    IN  /\ Cardinality(Dots(u)) <= 1
        /\ \A i \in 1..Len(u) : IsDigit(u[i]) \/ u[i] = "."
        /\ \E i \in 1..Len(u) : IsDigit(u[i])

(* int(float(s)) for such a string: the fraction is cut off                *)
Truncated(s) ==
    LET t == Strip(s)
        u == Unsigned(t)
        whole == IF Dots(u) = {} THEN u
                 ELSE SubSeq(u, 1, (CHOOSE i \in Dots(u) : TRUE) - 1)
    IN  IF t[1] = "-" THEN 0 - Decimal(whole) ELSE Decimal(whole)

(* int(float(x)), 0 on TypeError / ValueError (lines 139-142)              *)
ToScore(v) ==
    CASE Tag(v) = "num" -> v[2]
      [] Tag(v) = "bool" -> IF v[2] THEN 1 ELSE 0
      [] Tag(v) = "str" -> IF IsDecimal(v[2]) THEN Truncated(v[2]) ELSE 0
      [] OTHER -> 0

(* Lines 147-150 / 155-158; <<"?">> is str(x) of something that is neither *)
(* a string nor a list.                                                    *)
ToList(v) ==
    CASE Tag(v) = "list" -> v[2]
      [] Tag(v) = "str" -> <<v[2]>>
      [] OTHER -> << <<"?">> >>

(* Line 160: the fixed request put in front of the reason.                 *)
FixPrompt(reason) == <<"f", "i", "x", ":">> \o reason

(* Lines 130-132, 135-137, 144, 146, 154: the raw value behind each field. *)
RawApproved(raw) ==
    IF Tag(raw.approved) = "none" THEN Or(Key(raw, "agree_zh"), raw.agree)
    ELSE raw.approved

RawScore(raw) ==
    IF Tag(raw.satisfaction_score) = "none" THEN Or(Key(raw, "score_zh"), raw.score)
    ELSE raw.satisfaction_score

RawReason(raw) == Or(raw.reason, Or(Key(raw, "reason_zh"), <<"str", <<>>>>))

RawIssues(raw) == Or(raw.issues, Or(Key(raw, "issues_zh"), <<"list", <<>>>>))

RawSuggestions(raw) ==
    Or(raw.suggestions, Or(Key(raw, "suggestions_zh"), <<"list", <<>>>>))

(* The call raises: OverflowError at line 140 (not caught by the handler   *)
(* at 141), or TypeError at line 160 (a reason that is no string).         *)
normalize_raises(raw) ==
    \/ /\ Tag(RawScore(raw)) = "str"
       /\ LowerCase(Unsigned(Strip(RawScore(raw)[2]))) = <<"i", "n", "f">>
    \/ /\ ToList(RawSuggestions(raw)) = <<>>
       /\ Truthy(RawReason(raw))
       /\ Tag(RawReason(raw)) # "str"

normalize_review_result(raw) ==
    LET a0 == RawApproved(raw)
        approved == IF Tag(a0) = "str" THEN LowerCase(Strip(a0[2])) \in TruthyTokens
                    ELSE Truthy(a0)
        reason == RawReason(raw)[2]
        i0 == ToList(RawIssues(raw))
        issues == IF i0 = <<>> /\ Truthy(RawReason(raw)) THEN <<reason>> ELSE i0
        g0 == ToList(RawSuggestions(raw))
        suggestions == IF g0 = <<>> /\ Truthy(RawReason(raw))
                       THEN <<FixPrompt(reason)>> ELSE g0
    IN  [approved |-> approved, satisfaction_score |-> ToScore(RawScore(raw)),
         reason |-> reason, issues |-> issues, suggestions |-> suggestions]

(* What the model's review-code operation may return.                      *)
LLMReviews ==
    { RawReview(<<"bool", TRUE>>, None, <<"num", 95>>, None,
                <<"str", <<"f", "i", "n", "e">>>>, <<"list", <<>>>>, None),
      RawReview(<<"str", <<"n", "o">>>>, None, <<"str", <<"9", "5">>>>, None,
                <<"str", <<"b", "a", "d">>>>, <<"str", <<"u", "n", "s", "a", "f", "e">>>>,
                None),
      RawReview(None, <<"str", <<"y", "e", "s">>>>, None, <<"num", 50>>,
                <<"str", <<"w", "e", "a", "k">>>>, None,
                <<"list", << <<"t", "e", "s", "t">> >>>>),
      RawReview(<<"bool", FALSE>>, None, <<"str", <<"l", "o", "w">>>>, None,
                <<"str", <<"p", "o", "o", "r">>>>, None, None) }

(* The canned result of _review_code_with_retry (639-645).                 *)
CannedReview ==
    RawReview(<<"bool", FALSE>>, None, <<"num", 0>>, None,
              <<"str", <<"f", "a", "i", "l", "e", "d">>>>,
              <<"list", << <<"f", "a", "i", "l", "e", "d">> >>>>,
              <<"list", << <<"r", "e", "t", "r", "y">> >>>>)

(* Line 278 / 536 / 292 / 550: review_result = normalize_review_result(..) *)
(* for every review the stage may get, worked out once.                    *)
Normalized ==
    [raw \in LLMReviews \cup {CannedReview} |-> normalize_review_result(raw)]

(* A variant of the stopping condition that looks at the score only.       *)
ReviewFailsScoreOnly(r) == r.satisfaction_score < DefaultThreshold

ReviewFails(r) == (r.satisfaction_score < DefaultThreshold) \/ ~r.approved

(* ---------------------------------------------------------------------- *)
(* State                                                                   *)
(* ---------------------------------------------------------------------- *)
VARIABLES
    cfg,          \* self.config: step_by_step, auto_approve, max_retries, ...
    status,       \* self.generation_status
    pending,      \* self.pending_generation
    env,          \* the file system layout and the model's repertoire
    artifacts,    \* plugin directories that exist under the plugins root
    zips,         \* tasks whose call's temporary package file exists
    notices,      \* origin each call sent the cancellation notice to
    uses,         \* confirm/reject calls that consumed the stored proposal
    pc,           \* position of each task (an await, or idle/called/done)
    kind,         \* "start" | "confirm" | "none"
    args,         \* arguments of the call
    loc,          \* local variables of the call
    result,       \* result dict of the call (returned when pc = "done")
    calls,        \* collaborator operations the call has invoked
    log,          \* the call's review and fix calls, in order, with outcomes
    probe         \* a function of the program applied on its own (see below)

vars == <<cfg, env, status, pending, artifacts, zips, notices, uses,
          pc, kind, args, loc, result, calls, log, probe>>

IdleStatus ==
    [is_generating |-> FALSE, current_step |-> 0, progress_percentage |-> 0,
     plugin_name |-> <<>>, start_time |-> ""]

NoPending ==
    [active |-> FALSE, metadata |-> NoMetadata, markdown |-> NoMarkdown,
     description |-> <<>>, event |-> NoEvent, timestamp |-> ""]

NoArgs == [description |-> <<>>, approved |-> FALSE, feedback |-> FALSE]

IdleLoc ==
    [event |-> NoEvent, metadata |-> NoMetadata, markdown |-> NoMarkdown,
     description |-> <<>>, plugin_name |-> <<>>, review |-> NoReview,
     retry_count |-> 0, attempt |-> 0, guarded |-> FALSE, zip |-> FALSE]

NoResult ==
    [success |-> FALSE, error |-> "", pending_confirmation |-> FALSE,
     plugin_name |-> <<>>, satisfaction_score |-> 0, installed |-> FALSE,
     install_success |-> FALSE, install_error |-> "", reason |-> <<>>]

Failure(err) == [NoResult EXCEPT !.error = err]

_update_status(st, step, plugin_name) ==
    [st EXCEPT !.current_step = step,
               !.progress_percentage = (step * 100) \div TotalSteps,
               !.plugin_name = IF plugin_name # <<>> THEN plugin_name ELSE @]

(* A variant that records the start time and forgets the flag.            *)
SetGeneratingLate(st) == [st EXCEPT !.start_time = NowStamp]

SetGenerating(st) == [st EXCEPT !.is_generating = TRUE, !.start_time = NowStamp]

(* A variant of the cleanup that resets the progress and keeps the flag.   *)
FinallyKeepsFlag(st) ==
    [st EXCEPT !.current_step = 0, !.progress_percentage = 0, !.plugin_name = <<>>]

(* A variant of the cleanup that clears the flag only.                     *)
FinallyFlagOnly(st) == [st EXCEPT !.is_generating = FALSE]

Finally(st) ==
    [st EXCEPT !.is_generating = FALSE, !.current_step = 0,
               !.progress_percentage = 0, !.plugin_name = <<>>]

(* A variant that drops the payload and leaves the slot active.            *)
ClearKeepsActive == [NoPending EXCEPT !.active = TRUE]

clear_pending_generation == NoPending

(* A variant of the entry guard that lets every call in.                   *)
EntryGuardOpen(st) == FALSE

(* Line 95: the entry guard of generate_plugin_flow.                       *)
EntryGuard(st) == st.is_generating

(* A variant of the gate that asks even under auto-approve.                *)
NeedsConfirmationAlways(c) == TRUE

(* Line 240: the confirmation gate.                                        *)
NeedsConfirmation(c) == ~c.auto_approve

(* A variant that stores the proposal without the description.            *)
StoreProposalNoDescription(metadata, markdown_doc, description, event) ==
    [active |-> TRUE, metadata |-> metadata, markdown |-> markdown_doc,
     description |-> <<>>, event |-> event, timestamp |-> NowStamp]

(* Lines 242-249: the proposal stored at the gate.                         *)
StoreProposal(metadata, markdown_doc, description, event) ==
    [active |-> TRUE, metadata |-> metadata, markdown |-> markdown_doc,
     description |-> description, event |-> event, timestamp |-> NowStamp]

(* A variant that never notices the empty slot.                            *)
HasPendingAlways(p) == TRUE

(* Line 389: is a proposal waiting?                                        *)
HasPending(p) == p.active

(* A variant that ignores the caller's refusal.                            *)
RejectedNever(a) == FALSE

(* Line 404: the caller declined.                                          *)
Rejected(a) == ~a.approved

(* Line 412: the caller gave feedback.                                     *)
HasFeedback(a) == a.feedback

(* The file system (layout recognised, plugins root found), what the       *)
(* collaborators may answer (names, reviews, whether calls may raise), the *)
(* descriptions in use, and how many tasks the host runs side by side.     *)
Envs(slots, layouts, roots, faults, flaky, names, descriptions, reviews) ==
    [layout_valid : layouts, plugins_root : roots, faults : faults,
     flaky_review : flaky, slots : {slots},
     names : {names}, descriptions : {descriptions}, reviews : {reviews}]

Configs ==
    [step_by_step : BOOLEAN, auto_approve : BOOLEAN,
     max_retries : -1..MaxRetries, installer : BOOLEAN, api_password : BOOLEAN]

(* The review loop's body, the INSTALL stage and the combined metadata     *)
(* call write only the call's own locals and package file, so concurrent   *)
(* runs take the configurations without them; the single-task runs take    *)
(* every configuration.                                                    *)
ConcurrentConfigs ==
    {c \in Configs : c.max_retries = 0 /\ ~c.installer /\ ~c.api_password
                       /\ c.step_by_step}

ClearReviews ==
    {r \in LLMReviews :
        LET n == normalize_review_result(r)
        IN  n.approved = (n.satisfaction_score >= DefaultThreshold)}

(* One task: everything.  Two tasks side by side: one name, one            *)
(* description, clear-cut reviews, and a review call that does not raise   *)
(* (the review stage writes the call's own locals only).  More: also no    *)
(* failing collaborator and a recognised layout.                           *)
EnvsFor(k) ==
    IF k = 1
    THEN Envs(k, BOOLEAN, BOOLEAN, {TRUE}, {TRUE}, LLMNames, Descriptions, LLMReviews)
    ELSE IF k = 2
    THEN Envs(k, BOOLEAN, {TRUE}, {TRUE}, {FALSE}, {<<"W">>}, {Weather}, ClearReviews)
    ELSE Envs(k, {TRUE}, {TRUE}, {FALSE}, {FALSE}, {<<"W">>}, {Weather}, ClearReviews)

(* Whether a confirm may carry feedback: with more than two tasks side by *)
(* side the refinement (which writes the call's own locals only) is left   *)
(* out.                                                                    *)
Feedbacks(e) == IF e.slots <= 2 THEN BOOLEAN ELSE {FALSE}

ConfigsFor(k) == IF k = 1 THEN Configs ELSE ConcurrentConfigs

InitialArtifacts == {{}, {Namespaced(sanitize_plugin_name(<<"W">>))}}

InitState ==
    /\ status = IdleStatus
    /\ pending = NoPending
    /\ artifacts \in InitialArtifacts
    /\ zips = {}
    /\ notices = [t \in Tasks |-> NoEvent]
    /\ uses = 0
    /\ pc = [t \in Tasks |-> "idle"]
    /\ kind = [t \in Tasks |-> "none"]
    /\ args = [t \in Tasks |-> NoArgs]
    /\ loc = [t \in Tasks |-> IdleLoc]
    /\ result = [t \in Tasks |-> NoResult]
    /\ calls = [t \in Tasks |-> {}]
    /\ log = [t \in Tasks |-> <<>>]

(* No function is under the probe while the orchestrator runs.             *)
NoProbe == [fn |-> "none"]

InitFor(k) ==
    env \in EnvsFor(k) /\ cfg \in ConfigsFor(k) /\ InitState /\ probe = NoProbe

InitSeq == InitFor(1)

Init == \E k \in 1..NumTasks : InitFor(k)

(* ---------------------------------------------------------------------- *)
(* Helpers shared by the actions                                           *)
(* ---------------------------------------------------------------------- *)
Suspended(t) == pc[t] \notin {"idle", "done"}

(* Entries of the log: a fix call, a review call that raised, a review    *)
(* call that returned r (recorded after normalisation).                    *)
FixCall == [op |-> "fix", raised |-> FALSE, review |-> NoReview]

ReviewRaised == [op |-> "review", raised |-> TRUE, review |-> NoReview]

ReviewReturned(r) == [op |-> "review", raised |-> FALSE, review |-> r]

(* The canned review the retry wrapper hands over; no call is made.        *)
ReviewCanned(r) == [op |-> "canned", raised |-> FALSE, review |-> r]

(* The call moves to its next await, having made the calls c (logged ev).  *)
Move(t, p, l, c, ev) ==
    /\ pc' = [pc EXCEPT ![t] = p]
    /\ loc' = [loc EXCEPT ![t] = l]
    /\ calls' = [calls EXCEPT ![t] = @ \cup c]
    /\ log' = [log EXCEPT ![t] = @ \o ev]
    /\ UNCHANGED probe
    /\ UNCHANGED <<kind, args>>

Goto(t, p, l, c) == Move(t, p, l, c, <<>>)

(* The call returns res; inside the try block the finally clause runs.     *)
Leave(t, res, c, ev) ==
    /\ pc' = [pc EXCEPT ![t] = "done"]
    /\ result' = [result EXCEPT ![t] = res]
    /\ loc' = [loc EXCEPT ![t] = IdleLoc]
    /\ calls' = [calls EXCEPT ![t] = @ \cup c]
    /\ log' = [log EXCEPT ![t] = @ \o ev]
    /\ UNCHANGED probe
    /\ status' = IF loc[t].guarded THEN Finally(status) ELSE status
    /\ UNCHANGED <<kind, args>>

Return(t, res, c) == Leave(t, res, c, <<>>)

(* A variant of the resolver that takes every layout for valid.           *)
validate_directory_structure_valid == [valid |-> TRUE]

(* DirectoryDetector.validate_directory_structure                          *)
validate_directory_structure == [valid |-> env.layout_valid]

(* A variant of the resolver that always finds a plugins root.             *)
get_plugins_directory_found == TRUE

(* DirectoryDetector.get_plugins_directory: TRUE when a path is returned.  *)
get_plugins_directory == env.plugins_root

(* DirectoryDetector.check_plugin_exists                                   *)
(* A variant of the existence check that finds nothing.                    *)
check_plugin_exists_never(name) == FALSE

check_plugin_exists(name) ==
    get_plugins_directory /\ Namespaced(name) \in artifacts

(* A variant that sanitizes the name and forgets the namespace.            *)
FinalNameBare(meta) == sanitize_plugin_name(meta.name)

FinalName(meta) == Namespaced(sanitize_plugin_name(meta.name))

(* ---------------------------------------------------------------------- *)
(* A call is made on a free task; its body runs at once up to its first    *)
(* await (Enter) or returns without awaiting (Refuse).                     *)
(* ---------------------------------------------------------------------- *)
Free(t) == pc[t] \in {"idle", "done"} /\ t <= env.slots

Enter(t, k, a, p, l, c) ==
    /\ pc' = [pc EXCEPT ![t] = p]
    /\ kind' = [kind EXCEPT ![t] = k]
    /\ args' = [args EXCEPT ![t] = a]
    /\ loc' = [loc EXCEPT ![t] = l]
    /\ calls' = [calls EXCEPT ![t] = c]
    /\ log' = [log EXCEPT ![t] = <<>>]
    /\ UNCHANGED probe
    /\ result' = [result EXCEPT ![t] = NoResult]
    /\ notices' = [notices EXCEPT ![t] = NoEvent]

Refuse(t, k, a, res) ==
    /\ pc' = [pc EXCEPT ![t] = "done"]
    /\ kind' = [kind EXCEPT ![t] = k]
    /\ args' = [args EXCEPT ![t] = a]
    /\ loc' = [loc EXCEPT ![t] = IdleLoc]
    /\ calls' = [calls EXCEPT ![t] = {}]
    /\ log' = [log EXCEPT ![t] = <<>>]
    /\ UNCHANGED probe
    /\ result' = [result EXCEPT ![t] = res]
    /\ notices' = [notices EXCEPT ![t] = NoEvent]

(* ---------------------------------------------------------------------- *)
(* generate_plugin_flow                                                    *)
(* ---------------------------------------------------------------------- *)
(* Lines 94-182: the entry guard, the flag, the directory validation, up   *)
(* to the first await.                                                     *)
StartEntry(t) ==
    /\ Free(t)
    /\ \E d \in env.descriptions :
       LET a == [NoArgs EXCEPT !.description = d]
           l == [IdleLoc EXCEPT !.event = t, !.description = d, !.guarded = TRUE]
       IN  IF EntryGuard(status)
           THEN /\ Refuse(t, "start", a, Failure("busy"))
                /\ UNCHANGED status
           ELSE IF validate_directory_structure.valid
           THEN /\ status' = _update_status(SetGenerating(status), 1, <<>>)
                /\ Enter(t, "start", a, "s_meta", l, {"detector"})
           ELSE /\ status' = SetGenerating(status)
                /\ Enter(t, "start", a, "s_dir_send", l, {"detector"})
    /\ zips' = zips \ {t}
    /\ UNCHANGED <<cfg, env, pending, artifacts, uses>>

(* Lines 169-174: the failure message was sent.                            *)
StartDirInvalid(t) ==
    /\ pc[t] = "s_dir_send"
    /\ Return(t, Failure("dir_invalid"), {})
    /\ UNCHANGED <<cfg, env, pending, artifacts, zips, notices, uses>>

(* Lines 182-225: the metadata call returns or raises; the name is         *)
(* sanitized and checked against the plugins directory.                    *)
StartMeta(t) ==
    /\ pc[t] = "s_meta"
    /\ \/ \* the model call raises
          /\ env.faults
          /\ Return(t, Failure("meta_failed"), {"meta"})
          /\ UNCHANGED <<cfg, env, pending, artifacts, zips, notices, uses>>
       \/ \* the model returns something that is no dict
          /\ env.faults
          /\ Return(t, Failure(IF cfg.step_by_step THEN "bad_format" ELSE "meta_failed"),
                    {"meta"})
          /\ UNCHANGED <<cfg, env, pending, artifacts, zips, notices, uses>>
       \/ \E raw \in env.names, md \in {NoMarkdown} \cup Markdowns :
          LET markdown_doc == IF cfg.step_by_step THEN NoMarkdown ELSE md
              plugin_name == FinalName([name |-> raw])
              metadata == [name |-> plugin_name, markdown |-> markdown_doc]
              l == [loc[t] EXCEPT !.metadata = metadata, !.markdown = markdown_doc,
                                  !.plugin_name = plugin_name]
          IN  /\ (cfg.step_by_step => md = NoMarkdown)
              /\ IF check_plugin_exists(plugin_name)
                 THEN /\ status' = _update_status(status, 1, plugin_name)
                      /\ Goto(t, "s_exists_send", l, {"meta", "exists"})
                 ELSE /\ status' = _update_status(status, 2, plugin_name)
                      /\ Goto(t, "s_doc", l, {"meta", "exists"})
              /\ UNCHANGED <<cfg, env, pending, artifacts, zips, notices, uses, result>>

(* Lines 216-221                                                           *)
StartExists(t) ==
    /\ pc[t] = "s_exists_send"
    /\ Return(t, Failure("exists"), {})
    /\ UNCHANGED <<cfg, env, pending, artifacts, zips, notices, uses>>

(* Lines 225-258: the document call (when made) and the preview message;   *)
(* then the proposal is stored, or auto-approve goes on.                   *)
StartDoc(t) ==
    /\ pc[t] = "s_doc"
    /\ LET needed == cfg.step_by_step \/ loc[t].markdown = NoMarkdown
       IN  \/ /\ needed /\ env.faults
              /\ Return(t, Failure("doc_failed"), {"doc"})
              /\ UNCHANGED <<cfg, env, pending, artifacts, zips, notices, uses>>
           \/ \E md \in Markdowns :
              LET markdown_doc == IF needed THEN md ELSE loc[t].markdown
                  metadata == [loc[t].metadata EXCEPT !.markdown = markdown_doc]
                  l == [loc[t] EXCEPT !.metadata = metadata, !.markdown = markdown_doc]
                  c == IF needed THEN {"doc"} ELSE {}
              IN  /\ (~needed => md = CHOOSE m \in Markdowns : TRUE)
                  /\ IF NeedsConfirmation(cfg)
                     THEN /\ pending' = StoreProposal(metadata, markdown_doc,
                                                      loc[t].description, loc[t].event)
                          /\ uses' = 0
                          /\ Goto(t, "s_pending_send", l, c)
                     ELSE /\ Goto(t, "s_auto_send", l, c)
                          /\ UNCHANGED <<pending, uses>>
                  /\ UNCHANGED <<cfg, env, status, artifacts, zips, notices, result>>

(* Lines 251-256                                                           *)
StartPending(t) ==
    /\ pc[t] = "s_pending_send"
    /\ Return(t, [Failure("pending") EXCEPT !.pending_confirmation = TRUE], {})
    /\ UNCHANGED <<cfg, env, pending, artifacts, zips, notices, uses>>

(* Lines 258-262                                                           *)
StartAuto(t) ==
    /\ pc[t] = "s_auto_send"
    /\ status' = _update_status(status, 3, loc[t].plugin_name)
    /\ Goto(t, "code", loc[t], {})
    /\ UNCHANGED <<cfg, env, pending, artifacts, zips, notices, uses, result>>

(* ---------------------------------------------------------------------- *)
(* Stages CODE .. INSTALL, the same code in both entry points              *)
(* (generate_plugin_flow 260-346, continue_plugin_generation 483-604)      *)
(* ---------------------------------------------------------------------- *)
(* A variant that reads -1 as a plain number.                              *)
UnlimitedNever == FALSE

Unlimited == cfg.max_retries = -1

(* A variant of the budget test that allows one retry too many.            *)
BudgetLeftOffByOne(retry_count) == Unlimited \/ retry_count <= cfg.max_retries

(* Line 285 / 543: the budget part of the loop condition.                  *)
BudgetLeft(retry_count) == Unlimited \/ retry_count < cfg.max_retries

(* The review loop's head (285/543) and the check after it (294/552).      *)
AfterReview(t, r, c, ev) ==
    LET l == [loc[t] EXCEPT !.review = r, !.attempt = 0]
    IN  /\ ~(Unlimited /\ loc[t].retry_count >= MaxLoop /\ ReviewFails(r))
        /\ IF ReviewFails(r) /\ BudgetLeft(loc[t].retry_count)
           THEN /\ Move(t, "fix", [l EXCEPT !.retry_count = @ + 1], c, ev)
                /\ UNCHANGED <<status, result>>
           ELSE IF ReviewFails(r)
           THEN Leave(t, [Failure("review_failed") EXCEPT !.reason = r.reason], c, ev)
           ELSE /\ Move(t, "passed_send", l, c, ev)
                /\ UNCHANGED <<status, result>>

(* Lines 262-276 / 484-498                                                 *)
Code(t) ==
    /\ pc[t] = "code"
    /\ \/ /\ env.faults
          /\ Return(t, Failure("code_failed"), {"code"})
       \/ /\ status' = _update_status(status, 4, loc[t].plugin_name)
          /\ Goto(t, "review", loc[t], {"code"})
          /\ UNCHANGED result
    /\ UNCHANGED <<cfg, env, pending, artifacts, zips, notices, uses>>

(* _review_code_with_retry (618-653), one attempt per step.                *)
Review(t) ==
    /\ pc[t] = "review"
    /\ \/ /\ env.flaky_review /\ loc[t].attempt < InnerRetries - 1
          /\ Move(t, "review", [loc[t] EXCEPT !.attempt = @ + 1], {"review"},
                  <<ReviewRaised>>)
          /\ UNCHANGED <<status, result>>
       \/ /\ env.flaky_review /\ loc[t].attempt = InnerRetries - 1
          /\ LET r == Normalized[CannedReview]
             IN  AfterReview(t, r, {"review"}, <<ReviewRaised, ReviewCanned(r)>>)
       \/ \E raw \in env.reviews :
          LET r == Normalized[raw]
          IN  AfterReview(t, r, {"review"}, <<ReviewReturned(r)>>)
    /\ UNCHANGED <<cfg, env, pending, artifacts, zips, notices, uses>>

(* Line 291 / 549                                                          *)
Fix(t) ==
    /\ pc[t] = "fix"
    /\ \/ /\ env.faults
          /\ Leave(t, Failure("exception"), {"fix"}, <<FixCall>>)
       \/ /\ Move(t, "rereview", loc[t], {"fix"}, <<FixCall>>)
          /\ UNCHANGED <<status, result>>
    /\ UNCHANGED <<cfg, env, pending, artifacts, zips, notices, uses>>

(* Line 292 / 550: the re-review calls the model directly.                 *)
ReReview(t) ==
    /\ pc[t] = "rereview"
    /\ \/ /\ env.flaky_review
          /\ Leave(t, Failure("exception"), {"review"}, <<ReviewRaised>>)
       \/ \E raw \in env.reviews :
          LET r == Normalized[raw]
          IN  AfterReview(t, r, {"review"}, <<ReviewReturned(r)>>)
    /\ UNCHANGED <<cfg, env, pending, artifacts, zips, notices, uses>>

(* Lines 301-305 / 559-563                                                 *)
Passed(t) ==
    /\ pc[t] = "passed_send"
    /\ status' = _update_status(status, 5, loc[t].plugin_name)
    /\ Goto(t, "step5_send", loc[t], {})
    /\ UNCHANGED <<cfg, env, pending, artifacts, zips, notices, uses, result>>

(* A variant of the install test that asks for the client only.           *)
InstallConfiguredNoPassword(c) == c.installer

(* Line 319 / 577: an install client and a configured credential.          *)
InstallConfigured(c) == c.installer /\ c.api_password

(* create_plugin_directory (utils.py 142-155)                              *)
create_plugin_directory(dirs, plugin_name) == dirs \cup {Namespaced(plugin_name)}

(* Lines 307-320 / 565-578 with _create_plugin_files (655-707).            *)
Materialize(t) ==
    /\ pc[t] = "step5_send"
    /\ IF ~get_plugins_directory
          THEN /\ Return(t, Failure("exception"), {"materialize"})
               /\ UNCHANGED artifacts
          ELSE \/ \* a write fails: the directory may already have been made
                  /\ env.faults
                  /\ artifacts' \in {artifacts,
                                     create_plugin_directory(artifacts, loc[t].plugin_name)}
                  /\ Return(t, Failure("exception"), {"materialize"})
               \/ LET res == [NoResult EXCEPT !.success = TRUE,
                                 !.plugin_name = loc[t].plugin_name,
                                 !.satisfaction_score = loc[t].review.satisfaction_score]
                  IN  /\ artifacts' = create_plugin_directory(artifacts, loc[t].plugin_name)
                      /\ IF InstallConfigured(cfg)
                         THEN /\ result' = [result EXCEPT ![t] = res]
                              /\ Goto(t, "zip", loc[t], {"materialize"})
                              /\ UNCHANGED status
                         ELSE Return(t, res, {"materialize"})
    /\ UNCHANGED <<cfg, env, pending, zips, notices, uses>>

(* Lines 320-324 / 578-582: installer.create_plugin_zip                    *)
Zip(t) ==
    /\ pc[t] = "zip"
    /\ \/ /\ env.faults
          /\ result' = [result EXCEPT ![t].install_error = "raised"]
          /\ Goto(t, "err_send", loc[t], {"zip"})
          /\ UNCHANGED <<status, zips>>
       \/ /\ Return(t, result[t], {"zip"})
          /\ UNCHANGED zips
       \/ /\ zips' = zips \cup {t}
          /\ Goto(t, "install", [loc[t] EXCEPT !.zip = TRUE], {"zip"})
          /\ UNCHANGED <<status, result>>
    /\ UNCHANGED <<cfg, env, pending, artifacts, notices, uses>>

(* A variant of the test that takes every install for a success.          *)
InstallSucceededAlways(install_result) == TRUE

(* Line 327 / 585: did the install client report success?                  *)
InstallSucceeded(install_result) == install_result.success

(* Lines 324-335 / 582-593: installer.install_plugin                       *)
Install(t) ==
    /\ pc[t] = "install"
    /\ \/ /\ env.faults
          /\ result' = [result EXCEPT ![t].install_error = "raised"]
          /\ Goto(t, "err_send", loc[t], {"install"})
       \/ \E success \in BOOLEAN :
          LET install_result == [success |-> success]
              reported == [result[t] EXCEPT !.installed = TRUE,
                                            !.install_success = install_result.success]
          IN  IF InstallSucceeded(install_result)
              THEN /\ result' = [result EXCEPT ![t] = reported]
                   /\ Goto(t, "status", loc[t], {"install"})
              ELSE /\ result' = [result EXCEPT
                                   ![t] = [reported EXCEPT !.install_error = "reported"]]
                   /\ Goto(t, "fail_send", loc[t], {"install"})
    /\ UNCHANGED <<cfg, env, status, pending, artifacts, zips, notices, uses>>

(* Lines 336-338 / 594-596: the package file is removed, or os.remove      *)
(* raises and the handler at 339 / 597 takes over.                         *)
RemoveZip(t, c) ==
    \/ /\ zips' = zips \ {t}
       /\ Return(t, result[t], c)
    \/ /\ env.faults
       /\ result' = [result EXCEPT ![t].install_error = "raised"]
       /\ Goto(t, "err_send", loc[t], c)
       /\ UNCHANGED <<status, zips>>

(* Lines 328-332 / 586-590: installer.check_plugin_install_status          *)
Status(t) ==
    /\ pc[t] = "status"
    /\ \/ /\ env.faults
          /\ result' = [result EXCEPT ![t].install_error = "raised"]
          /\ Goto(t, "err_send", loc[t], {"status"})
          /\ UNCHANGED <<status, zips>>
       \/ /\ Goto(t, "warn_send", loc[t], {"status"})
          /\ UNCHANGED <<status, zips, result>>
       \/ RemoveZip(t, {"status"})
    /\ UNCHANGED <<cfg, env, pending, artifacts, notices, uses>>

(* Lines 330-338 / 588-596: the warning was sent.                          *)
Warned(t) ==
    /\ pc[t] = "warn_send"
    /\ RemoveZip(t, {})
    /\ UNCHANGED <<cfg, env, pending, artifacts, notices, uses>>

(* Lines 334-338 / 592-596: the reported failure was sent.                 *)
InstallFailed(t) ==
    /\ pc[t] = "fail_send"
    /\ RemoveZip(t, {})
    /\ UNCHANGED <<cfg, env, pending, artifacts, notices, uses>>

(* Lines 339-346 / 597-604: the handler's message was sent.                *)
InstallRaised(t) ==
    /\ pc[t] = "err_send"
    /\ Return(t, result[t], {})
    /\ UNCHANGED <<cfg, env, pending, artifacts, zips, notices, uses>>

(* ---------------------------------------------------------------------- *)
(* continue_plugin_generation                                              *)
(* ---------------------------------------------------------------------- *)
(* Lines 472-481: the flag is set (unconditionally) and stage 3 begins.    *)
Resume(st, plugin_name) == _update_status(SetGenerating(st), 3, plugin_name)

(* Lines 389-413 (and 471-484 when there is no feedback).                  *)
ConfirmEntry(t) ==
    /\ Free(t)
    /\ \E approved \in BOOLEAN, feedback \in Feedbacks(env) :
       LET a == [NoArgs EXCEPT !.approved = approved, !.feedback = feedback]
           l == [IdleLoc EXCEPT !.metadata = pending.metadata,
                                !.markdown = pending.markdown,
                                !.event = pending.event]
           plugin_name == FinalName(l.metadata)
       IN  /\ (~approved => ~feedback)
           /\ IF ~HasPending(pending)
              THEN /\ Refuse(t, "confirm", a, Failure("no_pending"))
                   /\ UNCHANGED <<status, pending, uses>>
              ELSE /\ pending' = clear_pending_generation
                   /\ uses' = IF uses < 2 THEN uses + 1 ELSE uses
                   /\ IF Rejected(a)
                      THEN /\ Enter(t, "confirm", a, "c_cancel_send", l, {})
                           /\ UNCHANGED status
                      ELSE IF HasFeedback(a)
                      THEN /\ Enter(t, "confirm", a, "c_refine", l, {})
                           /\ UNCHANGED status
                      ELSE /\ status' = Resume(status, plugin_name)
                           /\ Enter(t, "confirm", a, "code",
                                    [l EXCEPT !.guarded = TRUE,
                                              !.plugin_name = plugin_name,
                                              !.metadata.name = plugin_name], {})
    /\ zips' = zips \ {t}
    /\ UNCHANGED <<cfg, env, artifacts>>

(* Lines 405-409: the cancellation notice was sent to the origin.          *)
ConfirmCancelled(t) ==
    /\ pc[t] = "c_cancel_send"
    /\ notices' = [notices EXCEPT ![t] = loc[t].event]
    /\ Return(t, Failure("cancelled"), {})
    /\ UNCHANGED <<cfg, env, pending, artifacts, zips, uses>>

(* Lines 413-437: the refinement call and the repeated existence check.    *)
ConfirmRefine(t) ==
    /\ pc[t] = "c_refine"
    /\ \/ \* the call raises, or returns something that is no dict
          /\ env.faults
          /\ Return(t, Failure("refine_failed"), {"refine"})
       \/ \E raw \in env.names :
          LET plugin_name == FinalName([name |-> raw])
              metadata == [name |-> plugin_name, markdown |-> loc[t].markdown]
              l == [loc[t] EXCEPT !.metadata = metadata, !.plugin_name = plugin_name]
          IN  /\ IF check_plugin_exists(plugin_name)
                 THEN Goto(t, "c_exists_send", l, {"refine", "exists"})
                 ELSE Goto(t, "c_preview_send", l, {"refine", "exists"})
              /\ UNCHANGED <<status, result>>
    /\ UNCHANGED <<cfg, env, pending, artifacts, zips, notices, uses>>

(* Lines 431-436                                                           *)
ConfirmExists(t) ==
    /\ pc[t] = "c_exists_send"
    /\ Return(t, Failure("exists"), {})
    /\ UNCHANGED <<cfg, env, pending, artifacts, zips, notices, uses>>

(* Lines 463-484: the refined preview was sent.                            *)
ConfirmRefined(t) ==
    /\ pc[t] = "c_preview_send"
    /\ \E plugin_name \in {FinalName(loc[t].metadata)} :
           /\ status' = Resume(status, plugin_name)
           /\ Goto(t, "code", [loc[t] EXCEPT !.guarded = TRUE, !.plugin_name = plugin_name,
                                             !.metadata.name = plugin_name], {})
    /\ UNCHANGED <<cfg, env, pending, artifacts, zips, notices, uses, result>>

(* ---------------------------------------------------------------------- *)
(* Specification                                                           *)
(* ---------------------------------------------------------------------- *)
Next ==
    \E t \in Tasks :
       \/ StartEntry(t)
       \/ StartDirInvalid(t)
       \/ StartMeta(t)
       \/ StartExists(t)
       \/ StartDoc(t)
       \/ StartPending(t)
       \/ StartAuto(t)
       \/ Code(t)
       \/ Review(t)
       \/ Fix(t)
       \/ ReReview(t)
       \/ Passed(t)
       \/ Materialize(t)
       \/ Zip(t)
       \/ Install(t)
       \/ Status(t)
       \/ Warned(t)
       \/ InstallFailed(t)
       \/ InstallRaised(t)
       \/ ConfirmEntry(t)
       \/ ConfirmCancelled(t)
       \/ ConfirmRefine(t)
       \/ ConfirmExists(t)
       \/ ConfirmRefined(t)

Spec == Init /\ [][Next]_vars

SpecSeq == InitSeq /\ [][Next]_vars

(* A call that is suspended at an await takes its next step: the event     *)
(* loop resumes every task whose awaited call has returned or raised, and  *)
(* every collaborator call does so in the end.                             *)
Proceeds(t) ==
    \/ StartDirInvalid(t) \/ StartMeta(t) \/ StartExists(t) \/ StartDoc(t)
    \/ StartPending(t) \/ StartAuto(t) \/ Code(t) \/ Review(t) \/ Fix(t)
    \/ ReReview(t) \/ Passed(t) \/ Materialize(t) \/ Zip(t) \/ Install(t)
    \/ Status(t) \/ Warned(t) \/ InstallFailed(t) \/ InstallRaised(t)
    \/ ConfirmCancelled(t) \/ ConfirmRefine(t) \/ ConfirmExists(t)
    \/ ConfirmRefined(t)

SpecFair == Spec /\ \A t \in Tasks : WF_vars(Proceeds(t))

(* ---------------------------------------------------------------------- *)
(* Functions of the program applied on their own: the orchestrator stays   *)
(* idle and the probe holds the argument, then the value.                  *)
(* ---------------------------------------------------------------------- *)
orchestrator ==
    <<cfg, env, status, pending, artifacts, zips, notices, uses,
      pc, kind, args, loc, result, calls, log>>

InitIdleWith(roots) ==
    /\ cfg = [step_by_step |-> TRUE, auto_approve |-> FALSE, max_retries |-> 0,
              installer |-> FALSE, api_password |-> FALSE]
    /\ env \in Envs(1, {TRUE}, roots, {FALSE}, {FALSE}, LLMNames, Descriptions, LLMReviews)
    /\ InitState
    /\ artifacts = {}


(* Names the model may propose: every string of up to MaxNameLen           *)
(* characters (a capital, a small letter, a digit, the underscore, a       *)
(* character outside the word class), bare or behind the namespace token   *)
(* in either case.                                                         *)
NameInputs ==
    LET NameChars == {"W", "a", "9", "_", "-"}
        ShortNames == UNION {[1..n -> NameChars] : n \in 0..MaxNameLen}
        Tails == {m \in ShortNames : Len(m) <= 1}
    IN  ShortNames
        \cup {NamespacePrefix \o n : n \in Tails}
        \cup {<<"A">> \o Tail(NamespacePrefix) \o n : n \in Tails}

InitNames ==
    /\ InitIdleWith({TRUE})
    /\ probe \in [fn : {"sanitize_plugin_name"}, stage : {"input"}, input : NameInputs,
                   sanitized : {<<>>}, final : {<<>>}, resumed : {<<>>}]

(* Line 207 / 418: plugin_name = sanitize_plugin_name(metadata.get("name")) *)
SanitizeName ==
    /\ probe.fn = "sanitize_plugin_name" /\ probe.stage = "input"
    /\ probe' = [probe EXCEPT !.stage = "sanitized",
                              !.sanitized = sanitize_plugin_name(probe.input)]
    /\ UNCHANGED orchestrator

(* Lines 208-210 / 419-421: the namespace token is put in front if absent. *)
NamespaceName ==
    /\ probe.fn = "sanitize_plugin_name" /\ probe.stage = "sanitized"
    /\ probe' = [probe EXCEPT !.stage = "final",
                              !.final = FinalName([name |-> probe.input])]
    /\ UNCHANGED orchestrator

(* Lines 477-480: a confirm without feedback sanitizes the name stored in  *)
(* the proposal (probe.final) again and puts the namespace token in front  *)
(* if absent.                                                              *)
ResumeName ==
    /\ probe.fn = "sanitize_plugin_name" /\ probe.stage = "final"
    /\ probe' = [probe EXCEPT !.stage = "resumed",
                              !.resumed = FinalName([name |-> probe.final])]
    /\ UNCHANGED orchestrator

SpecNames == InitNames /\ [][SanitizeName \/ NamespaceName \/ ResumeName]_vars

(* ---------------------------------------------------------------------- *)
(* _create_plugin_files on a file system: a function from directory names  *)
(* to directories, a directory a function from file names to contents, a   *)
(* content a sequence.                                                     *)
(* ---------------------------------------------------------------------- *)
(* os.makedirs(plugin_dir, exist_ok=True)                                  *)
makedirs(fs, d) ==
    IF d \in DOMAIN fs THEN fs
    ELSE [x \in DOMAIN fs \cup {d} |-> IF x = d THEN <<>> ELSE fs[x]]

(* A variant of the write that opens the file for appending.               *)
WriteAppending(dir, f, content) ==
    [x \in DOMAIN dir \cup {f} |->
        IF x # f THEN dir[x]
        ELSE IF f \in DOMAIN dir THEN dir[f] \o content ELSE content]

(* with open(path, 'w') as f: f.write(content)                             *)
Write(dir, f, content) ==
    [x \in DOMAIN dir \cup {f} |-> IF x = f THEN content ELSE dir[x]]

(* dict.get(key, default) on a tagged value                                *)
Get(v, default) == IF Tag(v) = "none" THEN default ELSE v[2]

_create_plugin_files(fs, config, plugin_name, metadata, code, markdown) ==
    LET plugin_dir == Namespaced(plugin_name)
        made == makedirs(fs, plugin_dir)
        metadata_content ==
            IF Tag(metadata.metadata) = "dict" THEN metadata.metadata[2]
            ELSE [repo_url |-> None, dependencies |-> None]
        name == Get(metadata.name, plugin_name)
        yaml == << <<"name", name>>,
                   <<"author", Get(metadata.author, <<"CodeMage">>)>>,
                   <<"description", Get(metadata.description, <<"generated">>)>>,
                   <<"version", Get(metadata.version, <<"1.0.0">>)>>,
                   <<"repo", Get(metadata_content.repo_url, <<>>)>> >>
        dependencies == Get(metadata_content.dependencies, <<>>)
        readme_content ==
            IF Strip(markdown) # <<>> THEN markdown ELSE <<"#", " ">> \o name
        d1 == Write(made[plugin_dir], "main.py", code)
        d2 == Write(d1, "metadata.yaml", yaml)
        d3 == IF dependencies # <<>> /\ config.allow_dependencies
              THEN Write(d2, "requirements.txt", dependencies) ELSE d2
        d4 == Write(d3, "README.md", readme_content)
    IN  [made EXCEPT ![plugin_dir] = d4]

(* The plugins root is empty, or holds a directory left by an earlier run. *)
InitialFs ==
    {<<>>}
    \cup {[d \in {FinalName([name |-> n])} |->
             [f \in {"requirements.txt", "README.md"} |-> <<"old">>]] : n \in LLMNames}

InitFiles ==
    LET Dependencies == {None, <<"list", <<>>>>, <<"list", <<"requests">>>>,
                         <<"list", <<"requests", "httpx">>>>}
        NestedMetadata ==
            {None, <<"str", <<"x">>>>}
            \cup {<<"dict", c>> : c \in [repo_url : {None, <<"str", <<"u">>>>},
                                         dependencies : Dependencies]}
        Metadatas ==
            [name : {None, <<"str", <<"W">>>>}, author : {None, <<"str", <<"me">>>>},
             description : {None}, version : {None}, metadata : NestedMetadata]
    IN  /\ InitIdleWith(BOOLEAN)
        /\ probe \in [fn : {"_create_plugin_files"}, stage : {"input"},
                      config : [allow_dependencies : BOOLEAN],
                      plugin_name : {FinalName([name |-> n]) : n \in LLMNames},
                      metadata : Metadatas, code : {<<"v1">>, <<"v2">>},
                      markdown : {<<>>, <<" ">>, <<"#", " ", "d">>},
                      before : InitialFs, fs : {<<>>}, first : {<<>>}]
        /\ probe.fs = probe.before

(* Line 307 / 565: one call of _create_plugin_files; it raises when the    *)
(* resolver finds no plugins root (668-670).                               *)
Materialized(fs) ==
    _create_plugin_files(fs, probe.config, probe.plugin_name, probe.metadata,
                         probe.code, probe.markdown)

MaterializeOnce ==
    /\ probe.fn = "_create_plugin_files" /\ probe.stage = "input"
    /\ IF ~get_plugins_directory
       THEN probe' = [probe EXCEPT !.stage = "raised"]
       ELSE probe' = [probe EXCEPT !.stage = "once",
                                   !.fs = Materialized(probe.fs),
                                   !.first = Materialized(probe.fs)]
    /\ UNCHANGED orchestrator

MaterializeAgain ==
    /\ probe.fn = "_create_plugin_files" /\ probe.stage = "once"
    /\ probe' = [probe EXCEPT !.stage = "twice", !.fs = Materialized(probe.fs)]
    /\ UNCHANGED orchestrator

SpecFiles == InitFiles /\ [][MaterializeOnce \/ MaterializeAgain]_vars

(* ---------------------------------------------------------------------- *)
(* normalize_review_result on raw review maps: the keys behind one field   *)
(* of the result vary together, the others are missing; and the maps the   *)
(* orchestrator runs on.                                                   *)
(* ---------------------------------------------------------------------- *)
NoRaw ==
    [k \in {"approved", "agree_zh", "agree", "satisfaction_score", "score_zh", "score",
            "reason", "reason_zh", "issues", "issues_zh", "suggestions",
            "suggestions_zh"} |-> None]

ReviewInputs ==
    LET ApprovedValues ==
            {None, <<"bool", TRUE>>, <<"bool", FALSE>>, <<"num", 1>>, <<"str", <<>>>>,
             <<"str", <<" ", "Y", "e", "s", " ">>>>, <<"str", <<"n", "o">>>>,
             <<"str", <<"S", "M">>>>}
        ScoreValues ==
            {None, <<"num", 0>>, <<"num", 95>>, <<"num", 150>>, <<"num", 0 - 5>>,
             <<"bool", TRUE>>, <<"list", <<>>>>, <<"str", <<"9", "5">>>>,
             <<"str", <<" ", "9", ".", "5", " ">>>>, <<"str", <<"-", "9", ".", "7">>>>,
             <<"str", <<"l", "o", "w">>>>, <<"str", <<".">>>>,
             <<"str", <<"i", "n", "f">>>>}
        ReasonValues ==
            {None, <<"str", <<>>>>, <<"str", <<"r">>>>, <<"num", 5>>, <<"list", <<"r">>>>}
        ListValues ==
            {None, <<"str", <<"i">>>>, <<"list", <<>>>>,
             <<"list", << <<"i">>, <<"j">> >>>>, <<"num", 3>>}
    IN  {[NoRaw EXCEPT !.approved = a, !.agree_zh = z, !.agree = g] :
            a \in ApprovedValues, z \in {None, <<"str", <<"P", "Q">>>>},
            g \in {None, <<"bool", FALSE>>, <<"str", <<"y", "e", "s">>>>}}
        \cup {[NoRaw EXCEPT !.satisfaction_score = v, !.score_zh = z, !.score = g] :
            v \in ScoreValues, z \in {None, <<"num", 0>>, <<"num", 70>>},
            g \in {None, <<"num", 60>>}}
        \cup {[NoRaw EXCEPT !.reason = r, !.reason_zh = z, !.issues = i, !.issues_zh = j,
                            !.suggestions = g] :
            r \in ReasonValues, z \in {None, <<"str", <<"z">>>>}, i \in ListValues,
            j \in {None, <<"str", <<"k">>>>}, g \in ListValues \ {<<"num", 3>>}}
        \cup LLMReviews \cup {CannedReview}

InitReviews ==
    /\ InitIdleWith({TRUE})
    /\ probe \in [fn : {"normalize_review_result"}, stage : {"input"},
                  input : ReviewInputs, output : {NoReview}]

(* Line 278 / 536 / 292 / 550: the review the model returned is            *)
(* normalized, or the normalization raises.                                *)
NormalizeReview ==
    /\ probe.fn = "normalize_review_result" /\ probe.stage = "input"
    /\ IF normalize_raises(probe.input)
       THEN probe' = [probe EXCEPT !.stage = "raised"]
       ELSE probe' = [probe EXCEPT !.stage = "normalized",
                                   !.output = normalize_review_result(probe.input)]
    /\ UNCHANGED orchestrator

SpecReviews == InitReviews /\ [][NormalizeReview]_vars

(* ---------------------------------------------------------------------- *)
(* The chat commands of main.py. The probe holds the plugin object (its    *)
(* configuration, the host's administrator list, the stored credentials,   *)
(* the number of plugins in the repository directory) and one record per   *)
(* command the host dispatches: the position of its handler, the event it  *)
(* came with, the last session input, the last reply, and how many         *)
(* install-client calls and credential writes the handler has made. A      *)
(* reply is sent within the step that decides it; the orchestrator stays   *)
(* idle.                                                                   *)
(* ---------------------------------------------------------------------- *)
NumHandlers == 2
MaxPlugins == 2

_check_admin_permission_off(self, event) ==
    IF ~(IF self.admin_only = None THEN FALSE ELSE Truthy(self.admin_only))
    THEN TRUE
    ELSE \/ event.is_admin = "yes"
         \/ /\ event.is_admin # "raises"
            /\ Tag(event.role) = "str"
            /\ LowerCase(event.role[2]) = <<"a", "d", "m", "i", "n">>
         \/ event.sender \in self.admins

(* Lines 163-196: event.is_admin is absent, truthy ("yes"), falsy ("no")   *)
(* or raises when read or called; a raise skips the role test too.         *)
_check_admin_permission(self, event) ==
    IF ~(IF self.admin_only = None THEN TRUE ELSE Truthy(self.admin_only))
    THEN TRUE
    ELSE \/ event.is_admin = "yes"
         \/ /\ event.is_admin # "raises"
            /\ Tag(event.role) = "str"
            /\ LowerCase(event.role[2]) = <<"a", "d", "m", "i", "n">>
         \/ event.sender \in self.admins

selected_plugin_inclusive(index, plugins) ==
    LET s == Strip(index)
        u == Unsigned(s)
        idx == (IF s[1] = "-" THEN 0 - Decimal(u) ELSE Decimal(u)) - 1
    IN  IF u = <<>> \/ \E i \in 1..Len(u) : ~IsDigit(u[i])
        THEN <<"error", "ValueError">>
        ELSE IF 0 <= idx /\ idx <= plugins THEN <<"num", idx + 1>>
        ELSE None

(* Lines 402-403 / 433-434: idx = int(index) - 1 and the range test. The   *)
(* value is the number of the selected plugin, None when the index is out  *)
(* of range, and the ValueError when int() raises.                         *)
selected_plugin(index, plugins) ==
    LET s == Strip(index)
        u == Unsigned(s)
        idx == (IF s[1] = "-" THEN 0 - Decimal(u) ELSE Decimal(u)) - 1
    IN  IF u = <<>> \/ \E i \in 1..Len(u) : ~IsDigit(u[i])
        THEN <<"error", "ValueError">>
        ELSE IF 0 <= idx /\ idx < plugins THEN <<"num", idx + 1>>
        ELSE None

(* One command at a time is followed under every configuration; commands  *)
(* that overlap are followed under the default configuration (admin_only   *)
(* absent, no credentials yet, a filled repository).                       *)
InitCommands ==
    /\ InitIdleWith({TRUE})
    /\ \E k \in 1..NumHandlers :
         probe \in
           [fn : {"commands"},
            admin_only : IF k = 1 THEN {None, <<"bool", TRUE>>, <<"bool", FALSE>>}
                         ELSE {None},
            admins : {{"u1"}},
            saved_credentials :
                [astrbot_url : {<<"l">>}, api_username : {<<"a">>},
                 api_password_md5 : IF k = 1 THEN {<<>>, <<"md5", << <<"p">> >> >>}
                                    ELSE {<<>>}],
            config_password : IF k = 1 THEN BOOLEAN ELSE {FALSE},
            plugins : IF k = 1 THEN {0, MaxPlugins} ELSE {MaxPlugins},
            handler : {[h \in 1..k |->
                          [pc |-> "idle", command |-> "none", event |-> None,
                           input |-> <<>>, reply |-> "none", zips |-> 0,
                           installs |-> 0, deletes |-> 0, saves |-> 0]]}]

(* Lines 198-250: /upload with the path of the first attached file, <<>>   *)
(* when the message has none.                                              *)
upload_plugin_command(h, event, files) ==
    /\ probe.fn = "commands" /\ probe.handler[h].pc = "idle"
    /\ LET call == [probe.handler[h] EXCEPT !.command = "upload", !.event = event]
           n == Len(files)
       IN  probe' = [probe EXCEPT !.handler[h] =
             IF ~_check_admin_permission(probe, event)
             THEN [call EXCEPT !.pc = "done", !.reply = "refused"]
             ELSE IF files = <<>>
             THEN [call EXCEPT !.pc = "done", !.reply = "usage"]
             ELSE IF ~(n >= 4 /\ SubSeq(files, n - 3, n) = <<".", "z", "i", "p">>)
             THEN [call EXCEPT !.pc = "done", !.reply = "not_zip"]
             ELSE [call EXCEPT !.pc = "up_install", !.reply = "installing",
                               !.installs = @ + 1]]
    /\ UNCHANGED orchestrator

(* Lines 252-302: /install with a path; <<"f">> is a file, <<"d">> a       *)
(* directory, any other path does not exist.                               *)
install_local_plugin(h, event, plugin_path) ==
    /\ probe.fn = "commands" /\ probe.handler[h].pc = "idle"
    /\ LET call == [probe.handler[h] EXCEPT !.command = "install", !.event = event]
       IN  probe' = [probe EXCEPT !.handler[h] =
             IF ~_check_admin_permission(probe, event)
             THEN [call EXCEPT !.pc = "done", !.reply = "refused"]
             ELSE IF plugin_path = <<>>
             THEN [call EXCEPT !.pc = "done", !.reply = "usage"]
             ELSE IF plugin_path \notin {<<"f">>, <<"d">>}
             THEN [call EXCEPT !.pc = "done", !.reply = "no_such_path"]
             ELSE IF plugin_path # <<"d">>
             THEN [call EXCEPT !.pc = "done", !.reply = "not_a_directory"]
             ELSE [call EXCEPT !.pc = "loc_zip", !.reply = "installing",
                               !.zips = @ + 1]]
    /\ UNCHANGED orchestrator

(* Lines 304-332: /uninstall with a plugin name.                           *)
uninstall_plugin_command(h, event, plugin_name) ==
    /\ probe.fn = "commands" /\ probe.handler[h].pc = "idle"
    /\ LET call == [probe.handler[h] EXCEPT !.command = "uninstall", !.event = event]
       IN  probe' = [probe EXCEPT !.handler[h] =
             IF ~_check_admin_permission(probe, event)
             THEN [call EXCEPT !.pc = "done", !.reply = "refused"]
             ELSE IF plugin_name = <<>>
             THEN [call EXCEPT !.pc = "done", !.reply = "usage"]
             ELSE [call EXCEPT !.pc = "un_delete", !.reply = "uninstalling",
                               !.deletes = @ + 1]]
    /\ UNCHANGED orchestrator

(* Lines 334-358 (list) and 635-659 (show_config): both only read.         *)
InspectCommand(h, event, command) ==
    /\ probe.fn = "commands" /\ probe.handler[h].pc = "idle"
    /\ command \in {"list", "show_config"}
    /\ LET call == [probe.handler[h] EXCEPT !.command = command, !.event = event]
       IN  probe' = [probe EXCEPT !.handler[h] =
             IF ~_check_admin_permission(probe, event)
             THEN [call EXCEPT !.pc = "done", !.reply = "refused"]
             ELSE IF command = "list" /\ probe.plugins = 0
             THEN [call EXCEPT !.pc = "done", !.reply = "no_plugins"]
             ELSE [call EXCEPT !.pc = "done", !.reply = command]]
    /\ UNCHANGED orchestrator

(* Lines 360-440 up to the session, and 489-499 for an index given with    *)
(* the command (_do_install_plugin_direct up to the packaging call).       *)
select_plugin_command(h, event, index) ==
    /\ probe.fn = "commands" /\ probe.handler[h].pc = "idle"
    /\ LET call == [probe.handler[h] EXCEPT !.command = "select", !.event = event]
           selected == selected_plugin(index, probe.plugins)
       IN  probe' = [probe EXCEPT !.handler[h] =
             IF ~_check_admin_permission(probe, event)
             THEN [call EXCEPT !.pc = "done", !.reply = "refused"]
             ELSE IF probe.plugins = 0
             THEN [call EXCEPT !.pc = "done", !.reply = "no_plugins"]
             ELSE IF index = <<>>
             THEN [call EXCEPT !.pc = "sel_wait", !.reply = "choose"]
             ELSE IF Tag(selected) = "error"
             THEN [call EXCEPT !.pc = "done", !.reply = "not_a_number"]
             ELSE IF selected = None
             THEN [call EXCEPT !.pc = "done", !.reply = "invalid_index"]
             ELSE IF ~(probe.saved_credentials.api_password_md5 # <<>>
                       \/ probe.config_password)
             THEN [call EXCEPT !.pc = "done", !.reply = "not_configured"]
             ELSE [call EXCEPT !.pc = "dir_zip", !.reply = "installing",
                               !.zips = @ + 1]]
    /\ UNCHANGED orchestrator

(* Lines 389-422 with 442-458: one message of the selection session, or    *)
(* its timeout (the waiter raises, lines 423-429).                         *)
plugin_selection_waiter(h, message_str, timeout) ==
    /\ probe.fn = "commands" /\ probe.handler[h].pc = "sel_wait"
    /\ LET user_input == Strip(message_str)
           session == [probe.handler[h] EXCEPT !.input = message_str]
           selected == selected_plugin(user_input, probe.plugins)
       IN  probe' = [probe EXCEPT !.handler[h] =
             IF timeout
             THEN [session EXCEPT !.pc = "done", !.reply = "error"]
             ELSE IF user_input = <<"0">> \/ LowerCase(user_input) = <<"q">>
             THEN [session EXCEPT !.pc = "done", !.reply = "cancelled"]
             ELSE IF Tag(selected) = "error"
             THEN [session EXCEPT !.reply = "not_a_number"]
             ELSE IF selected = None
             THEN [session EXCEPT !.reply = "invalid_index"]
             ELSE IF ~(probe.saved_credentials.api_password_md5 # <<>>
                       \/ probe.config_password)
             THEN [session EXCEPT !.pc = "done", !.reply = "not_configured"]
             ELSE [session EXCEPT !.pc = "sel_zip", !.reply = "installing",
                                  !.zips = @ + 1]]
    /\ UNCHANGED orchestrator

(* Lines 520-543: /credentials shows the stored values and opens the       *)
(* session.                                                                *)
config_credentials_command(h, event) ==
    /\ probe.fn = "commands" /\ probe.handler[h].pc = "idle"
    /\ LET call == [probe.handler[h] EXCEPT !.command = "credentials", !.event = event]
       IN  probe' = [probe EXCEPT !.handler[h] =
             IF ~_check_admin_permission(probe, event)
             THEN [call EXCEPT !.pc = "done", !.reply = "refused"]
             ELSE [call EXCEPT !.pc = "cred_wait", !.reply = "prompt"]]
    /\ UNCHANGED orchestrator

(* Lines 545-633: one message of the credentials session, given by its     *)
(* words (user_input.split()), or its timeout. _save_credentials (lines    *)
(* 95-107) replaces the stored credentials; the password is kept as its   *)
(* words.                                                                  *)
credentials_waiter(h, parts, timeout) ==
    /\ probe.fn = "commands" /\ probe.handler[h].pc = "cred_wait"
    /\ LET session == [probe.handler[h] EXCEPT !.input = parts]
           http == <<"h", "t", "t", "p", ":", "/", "/">>
           url == IF Len(parts) >= 3
                  THEN IF StartsWith(parts[1], http) THEN parts[1] ELSE http \o parts[1]
                  ELSE probe.saved_credentials.astrbot_url
           username == IF Len(parts) >= 3 THEN parts[2]
                       ELSE probe.saved_credentials.api_username
           password == IF Len(parts) >= 3 THEN SubSeq(parts, 3, Len(parts)) ELSE parts
       IN  IF timeout
           THEN probe' = [probe EXCEPT !.handler[h] =
                            [session EXCEPT !.pc = "done", !.reply = "error"]]
           ELSE IF parts = << <<"0">> >> \/ parts = << <<"q">> >>
           THEN probe' = [probe EXCEPT !.handler[h] =
                            [session EXCEPT !.pc = "done", !.reply = "cancelled"]]
           ELSE IF Len(parts) >= 3 \/ Len(parts) = 1
           THEN probe' = [probe EXCEPT
                            !.saved_credentials =
                                [astrbot_url |-> url, api_username |-> username,
                                 api_password_md5 |-> <<"md5", password>>],
                            !.handler[h] =
                                [session EXCEPT !.pc = "done", !.reply = "saved",
                                                !.saves = @ + 1]]
           ELSE probe' = [probe EXCEPT !.handler[h] =
                            [session EXCEPT !.reply = "format_error"]]
    /\ UNCHANGED orchestrator

(* The install client returns to the handler that awaits it: the package   *)
(* call (lines 280, 458, 499) with a path, with nothing or with an         *)
(* exception; the install call (lines 240, 287, 466, 504) and the delete   *)
(* call (line 323) with success, with an error or with an exception.       *)
InstallerReturns(h) ==
    /\ probe.fn = "commands" /\ h \in DOMAIN probe.handler
    /\ LET call == probe.handler[h]
       IN  \/ /\ call.pc \in {"loc_zip", "sel_zip", "dir_zip"}
              /\ \/ probe' = [probe EXCEPT !.handler[h] =
                      [call EXCEPT !.pc = IF call.pc = "loc_zip" THEN "loc_install"
                                          ELSE IF call.pc = "sel_zip" THEN "sel_install"
                                          ELSE "dir_install",
                                   !.installs = @ + 1]]
                 \/ \E reply \in {"zip_failed", "failed"} :
                      probe' = [probe EXCEPT !.handler[h] =
                                  [call EXCEPT !.pc = "done", !.reply = reply]]
           \/ /\ call.pc \in {"up_install", "loc_install", "sel_install", "dir_install"}
              /\ \E reply \in {"installed", "install_failed", "failed"} :
                   probe' = [probe EXCEPT !.handler[h] =
                               [call EXCEPT !.pc = "done", !.reply = reply]]
           \/ /\ call.pc = "un_delete"
              /\ \E reply \in {"uninstalled", "uninstall_failed", "failed"} :
                   probe' = [probe EXCEPT !.handler[h] =
                               [call EXCEPT !.pc = "done", !.reply = reply]]
    /\ UNCHANGED orchestrator

(* The host hands handler h a command or a session message. With more     *)
(* than two commands side by side (each handler writes its own record, and *)
(* only the credentials session writes the stored credentials) the events  *)
(* and messages are cut to the few given.                                  *)
Served(h, given, few) ==
    /\ probe.fn = "commands" /\ h \in DOMAIN probe.handler
    /\ Len(probe.handler) > 2 => given \in few

Dispatched(h, event) ==
    Served(h, event.is_admin, {"yes", "absent"}) /\ Served(h, event.sender, {"u2"})

(* The host dispatches commands with any of these events and arguments,    *)
(* and hands each session the messages that follow or lets it time out.    *)
NextCommands ==
    \E h \in 1..NumHandlers :
        \/ \E event \in
               {[is_admin |-> "yes", role |-> None, sender |-> "u2"],
                [is_admin |-> "absent", role |-> <<"str", <<"u", "s", "e", "r">>>>,
                 sender |-> "u2"],
                [is_admin |-> "no", role |-> <<"str", <<"A", "d", "m", "i", "n">>>>,
                 sender |-> "u2"],
                [is_admin |-> "raises", role |-> <<"str", <<"A", "d", "m", "i", "n">>>>,
                 sender |-> "u2"],
                [is_admin |-> "absent", role |-> None, sender |-> "u1"],
                [is_admin |-> "no", role |-> None, sender |-> "u2"]} :
               \/ \E files \in {<<>>, <<"a", ".", "z", "i", "p">>,
                                <<"a", ".", "t", "x", "t">>} :
                      Dispatched(h, event) /\ upload_plugin_command(h, event, files)
               \/ \E plugin_path \in {<<>>, <<"m">>, <<"f">>, <<"d">>} :
                      Dispatched(h, event) /\ install_local_plugin(h, event, plugin_path)
               \/ \E plugin_name \in {<<>>, <<"x">>} :
                      Dispatched(h, event) /\ uninstall_plugin_command(h, event, plugin_name)
               \/ \E command \in {"list", "show_config"} :
                      Dispatched(h, event) /\ InspectCommand(h, event, command)
               \/ \E index \in {<<>>, <<"0">>, <<"1">>, <<"x">>,
                                <<Digits[MaxPlugins + 2]>>} :
                      Dispatched(h, event) /\ select_plugin_command(h, event, index)
               \/ Dispatched(h, event) /\ config_credentials_command(h, event)
        \/ \E message_str \in
               {<<"0">>, <<"1">>, <<"x">>, <<Digits[MaxPlugins + 2]>>, <<"q">>,
                <<" ", Digits[MaxPlugins + 1]>>, <<"0", "1">>, <<"0", "0">>,
                <<"-", "1">>, <<>>} :
               /\ Served(h, message_str,
                         {<<"0">>, <<"1">>, <<"x">>, <<Digits[MaxPlugins + 2]>>})
               /\ plugin_selection_waiter(h, message_str, FALSE)
        \/ Served(h, 0, {0}) /\ plugin_selection_waiter(h, <<>>, TRUE)
        \/ \E parts \in
               {<< <<"0">> >>, << <<"w">> >>, << <<"l">>, <<"w">> >>, << <<"q">> >>,
                <<>>, << <<"l">>, <<"a">>, <<"w">> >>} :
               /\ Served(h, parts, {<< <<"0">> >>, << <<"w">> >>, << <<"l">>, <<"w">> >>})
               /\ credentials_waiter(h, parts, FALSE)
        \/ Served(h, 0, {0}) /\ credentials_waiter(h, <<>>, TRUE)
        \/ InstallerReturns(h)

SpecCommands == InitCommands /\ [][NextCommands]_vars

(* The install client returns from every call made to it.                  *)
SpecCommandsFair ==
    SpecCommands /\ \A h \in 1..NumHandlers : WF_vars(InstallerReturns(h))


(* ---------------------------------------------------------------------- *)
(* Vocabulary of the properties                                            *)
(* ---------------------------------------------------------------------- *)
(* Everything task t owns.  Only t's own actions change it.                *)
Locals(t) ==
    <<pc[t], kind[t], args[t], loc[t], result[t], calls[t], notices[t], log[t]>>

(* Task t issues a call of kind k in this step.                            *)
Calls(t, k) ==
    /\ pc[t] \in {"idle", "done"}
    /\ Locals(t)' # Locals(t)
    /\ kind'[t] = k

(* Suspended on a model-synthesis or install-client call of META..INSTALL. *)
StageAwaits == {"s_meta", "s_doc", "code", "review", "fix", "rereview",
                "install", "status"}

InFlight(t) == pc[t] \in StageAwaits

(* The idle shape of the status (start_time is not part of it).            *)
IdleShape(st) ==
    /\ ~st.is_generating
    /\ st.current_step = 0
    /\ st.progress_percentage = 0
    /\ st.plugin_name = <<>>

(* Collaborator calls made after the confirmation gate.                    *)
LateCalls == {"code", "review", "fix", "materialize", "zip", "install", "status"}

(* Results a start call returns before the end of stage DOC.               *)
EarlyErrors == {"busy", "dir_invalid", "meta_failed", "bad_format", "exists",
                "doc_failed"}

(* The review and fix calls of a call, read from its log.                  *)
ReviewCalls(t) == {i \in 1..Len(log[t]) : log[t][i].op = "review"}

FixCalls(t) == {i \in 1..Len(log[t]) : log[t][i].op = "fix"}

Raises(t) == {i \in 1..Len(log[t]) : log[t][i].raised}

(* The reviews the loop decided on: returned by the model, or canned.      *)
Verdicts(t) ==
    {i \in 1..Len(log[t]) : log[t][i].op \in {"review", "canned"} /\ ~log[t][i].raised}

(* The log ends with a verdict; Passes / Misses read the two predicates    *)
(* of the stopping condition off it.                                       *)
EndsWithVerdict(t) == log[t] # <<>> /\ Len(log[t]) \in Verdicts(t)

LastReview(t) == log[t][Len(log[t])].review

Passes(r) == r.satisfaction_score >= DefaultThreshold /\ r.approved

(* review, fix, review, fix, ..., review                                   *)
Alternating(t) ==
    /\ Len(log[t]) % 2 = 1
    /\ \A i \in 1..Len(log[t]) :
         log[t][i].op = IF i % 2 = 1 THEN "review" ELSE "fix"

(* Positions of a call after the review stage let it through.              *)
AfterReviewStage ==
    {"passed_send", "step5_send", "zip", "install", "status", "warn_send",
     "fail_send", "err_send"}

WriteCalls == {"materialize", "zip", "install", "status"}

(* The model-synthesis calls.                                              *)
ModelCalls == {"meta", "doc", "code", "review", "fix", "refine"}

(* ---------------------------------------------------------------------- *)
(* C1: at most one generation is in flight: no two calls are at the same   *)
(* time suspended on a model or installer call of the stages META to       *)
(* INSTALL.  The code lets a confirm set the flag without looking at it,   *)
(* so a confirm runs its stages while a start is in its own.               *)
(* ---------------------------------------------------------------------- *)
C1_SingleFlight == Cardinality({t \in Tasks : InFlight(t)}) <= 1

(* ---------------------------------------------------------------------- *)
(* C2: a start call made while is_generating is true returns the busy      *)
(* error at once, leaves the status and the pending slot as they were and  *)
(* calls no collaborator.                                                  *)
(* ---------------------------------------------------------------------- *)
C2_BusyStartChangesNothing ==
    [][\A t \in Tasks :
        (Calls(t, "start") /\ status.is_generating) =>
            /\ pc'[t] = "done"
            /\ result'[t] = Failure("busy")
            /\ calls'[t] = {}
            /\ status' = status
            /\ pending' = pending
            /\ artifacts' = artifacts]_vars

C2_Witness ==
    \E t, u \in Tasks :
        /\ t # u
        /\ Suspended(u) /\ loc[u].guarded /\ status.is_generating
        /\ kind[t] = "start" /\ pc[t] = "done" /\ result[t].error = "busy"

(* ---------------------------------------------------------------------- *)
(* C3: the check and the set of is_generating happen in one step: a start  *)
(* call that finds the flag clear has set it before any other task runs,   *)
(* and a start call that finds it set is refused, so of two start calls    *)
(* on an idle orchestrator exactly one passes the guard.                   *)
(* ---------------------------------------------------------------------- *)
C3_AtomicCheckAndSet ==
    [][\A t \in Tasks :
        Calls(t, "start") =>
            IF status.is_generating
            THEN pc'[t] = "done" /\ result'[t].error = "busy"
            ELSE /\ status'.is_generating
                 /\ loc'[t].guarded
                 /\ pc'[t] # "done"]_vars

C3_Witness ==
    \E t, u \in Tasks :
        /\ t # u
        /\ kind[t] = "start" /\ kind[u] = "start"
        /\ pc[t] = "s_meta" /\ loc[t].guarded
        /\ pc[u] = "done" /\ result[u].error = "busy"
        /\ \A v \in Tasks \ {t, u} : pc[v] = "idle"

(* ---------------------------------------------------------------------- *)
(* C4: a start or confirm call that set is_generating leaves the status    *)
(* in the idle shape when it returns, whatever the exit path.              *)
(* ---------------------------------------------------------------------- *)
C4_IdleShapeOnReturn ==
    [][\A t \in Tasks :
        (Suspended(t) /\ loc[t].guarded /\ pc'[t] = "done") => IdleShape(status')]_vars

C4_Witness ==
    \E t \in Tasks :
        /\ pc[t] = "done" /\ kind[t] = "confirm"
        /\ result[t].error = "exception"
        /\ IdleShape(status)

(* ---------------------------------------------------------------------- *)
(* C5: a confirm reads and clears the proposal in one step, so of the      *)
(* confirm and reject calls made against one stored proposal exactly one   *)
(* consumes it and the others get "no pending task".                       *)
(* ---------------------------------------------------------------------- *)
C5_ConsumedOnce == uses <= 1 /\ (pending.active => uses = 0)

C5_Witness ==
    \E t, u \in Tasks :
        /\ t # u /\ uses = 1
        /\ kind[u] = "confirm" /\ pc[u] = "code"
        /\ kind[t] = "confirm" /\ pc[t] = "done" /\ result[t].error = "no_pending"


(* ---------------------------------------------------------------------- *)
(* C6: a start call made while a proposal is active is rejected with a     *)
(* domain error and leaves the pending slot as it was.  The code checks    *)
(* only is_generating at entry, so the call runs its stages and its        *)
(* proposal replaces the stored one.                                       *)
(* ---------------------------------------------------------------------- *)
C6_StartRefusedWhilePending ==
    [][\A t \in Tasks :
        (Calls(t, "start") /\ pending.active) =>
            /\ pc'[t] = "done"
            /\ ~result'[t].success
            /\ pending' = pending]_vars

(* ---------------------------------------------------------------------- *)
(* C7: without auto-approve, a start whose stages META and DOC succeed     *)
(* stores the proposal (active, with the sanitized metadata, the markdown, *)
(* the original description and the origin) and returns in the same call   *)
(* success = false with pending_confirmation = true, having made no code,  *)
(* review, fix, materialize or install call.                               *)
(* ---------------------------------------------------------------------- *)
C7_ProposalStored ==
    /\ [](\A t \in Tasks :
            (/\ ~cfg.auto_approve
             /\ kind[t] = "start" /\ pc[t] = "done"
             /\ result[t].error \notin EarlyErrors) =>
                /\ ~result[t].success
                /\ result[t].pending_confirmation
                /\ calls[t] \cap LateCalls = {})
    /\ [][\A t \in Tasks :
            (~cfg.auto_approve /\ pc[t] = "s_doc" /\ pc'[t] \notin {"s_doc", "done"}) =>
                /\ pc'[t] = "s_pending_send"
                /\ pending'.active
                /\ pending'.metadata.name = loc[t].plugin_name
                /\ pending'.metadata.name =
                       Namespaced(sanitize_plugin_name(pending'.metadata.name))
                /\ pending'.markdown \in Markdowns
                /\ pending'.metadata.markdown = pending'.markdown
                /\ pending'.description = args[t].description
                /\ pending'.description \in Descriptions
                /\ pending'.event = t]_vars
    /\ [][\A t \in Tasks :
            (pc[t] = "s_pending_send" /\ pc'[t] # "s_pending_send") =>
                /\ pc'[t] = "done"
                /\ result'[t].pending_confirmation
                /\ ~result'[t].success]_vars

C7_Witness ==
    \E t \in Tasks :
        /\ ~cfg.auto_approve
        /\ kind[t] = "start" /\ pc[t] = "done"
        /\ result[t].pending_confirmation /\ ~result[t].success
        /\ {"meta", "doc"} \subseteq calls[t]
        /\ pending.active /\ pending.event = t
        /\ pending.description = args[t].description

(* ---------------------------------------------------------------------- *)
(* C8: with auto-approve on, the pending slot is never active, and a start *)
(* whose stages META and DOC succeed goes on to code generation in the     *)
(* same call.                                                              *)
(* ---------------------------------------------------------------------- *)
C8_AutoApproveNeverPends ==
    cfg.auto_approve =>
        /\ ~pending.active
        /\ \A t \in Tasks :
            /\ pc[t] # "s_pending_send"
            /\ ~result[t].pending_confirmation
            /\ (kind[t] = "start" /\ pc[t] = "done" /\ result[t].error \notin EarlyErrors)
                   => "code" \in calls[t]

C8_Witness ==
    \E t \in Tasks :
        /\ cfg.auto_approve
        /\ kind[t] = "start" /\ pc[t] = "review"
        /\ {"meta", "code"} \subseteq calls[t]
        /\ ~pending.active

(* ---------------------------------------------------------------------- *)
(* C9: confirm and reject called with no active proposal both return the   *)
(* "no pending task" failure, call no collaborator and leave the status    *)
(* and the pending slot as they were.                                      *)
(* ---------------------------------------------------------------------- *)
C9_NoPendingRefused ==
    [][\A t \in Tasks :
        (Calls(t, "confirm") /\ ~pending.active) =>
            /\ pc'[t] = "done"
            /\ result'[t] = Failure("no_pending")
            /\ calls'[t] = {}
            /\ notices'[t] = NoEvent
            /\ status' = status
            /\ pending' = pending
            /\ artifacts' = artifacts]_vars

C9_Witness ==
    \E t \in Tasks :
        /\ kind[t] = "confirm" /\ pc[t] = "done"
        /\ ~args[t].approved
        /\ result[t] = Failure("no_pending")
        /\ calls[t] = {}

(* ---------------------------------------------------------------------- *)
(* C10: a reject of an active proposal clears the pending slot, sends the  *)
(* cancellation notice to the proposal's origin and returns the "user      *)
(* cancelled" failure; it makes no model, materialize or install call and  *)
(* never sets is_generating.                                               *)
(* ---------------------------------------------------------------------- *)
C10_RejectCancels ==
    /\ [][\A t \in Tasks :
            (Calls(t, "confirm") /\ ~args'[t].approved /\ pending.active) =>
                /\ pending' = NoPending
                /\ pc'[t] = "c_cancel_send"
                /\ loc'[t].event = pending.event
                /\ ~loc'[t].guarded
                /\ calls'[t] = {}
                /\ status' = status]_vars
    /\ [][\A t \in Tasks :
            (pc[t] = "c_cancel_send" /\ pc'[t] # "c_cancel_send") =>
                /\ pc'[t] = "done"
                /\ result'[t] = Failure("cancelled")
                /\ notices'[t] = loc[t].event
                /\ notices'[t] # NoEvent
                /\ calls'[t] = {}
                /\ status' = status]_vars

C10_Witness ==
    \E t \in Tasks :
        /\ kind[t] = "confirm" /\ pc[t] = "done"
        /\ ~args[t].approved
        /\ result[t] = Failure("cancelled")
        /\ notices[t] # NoEvent
        /\ calls[t] = {}
        /\ ~pending.active


(* ---------------------------------------------------------------------- *)
(* C11: on confirm with feedback the metadata is the refinement call's     *)
(* result, its name sanitized again and given the namespace prefix, and    *)
(* the existence check is made on that name; a refined name that exists    *)
(* ends the call with the name-collision error before any code call.       *)
(* ---------------------------------------------------------------------- *)
C11_RefinedNameChecked ==
    /\ [][\A t \in Tasks :
            (pc[t] = "c_refine" /\ pc'[t] \notin {"c_refine", "done"}) =>
                LET n == loc'[t].plugin_name
                IN  /\ \E raw \in env.names : n = Namespaced(sanitize_plugin_name(raw))
                    /\ StartsWith(n, NamespacePrefix)
                    /\ loc'[t].metadata.name = n
                    /\ {"refine", "exists"} \subseteq calls'[t]
                    /\ pc'[t] = IF get_plugins_directory /\ n \in artifacts
                                THEN "c_exists_send" ELSE "c_preview_send"]_vars
    /\ [][\A t \in Tasks :
            (pc[t] = "c_exists_send" /\ pc'[t] # "c_exists_send") =>
                /\ pc'[t] = "done"
                /\ result'[t] = Failure("exists")
                /\ calls'[t] \cap LateCalls = {}]_vars

C11_Witness ==
    \E t \in Tasks :
        /\ kind[t] = "confirm" /\ args[t].approved /\ args[t].feedback
        /\ pc[t] = "done" /\ result[t] = Failure("exists")
        /\ calls[t] = {"refine", "exists"}

(* ---------------------------------------------------------------------- *)
(* C12: in stage META a sanitized, namespaced name that exists on disk     *)
(* ends the start call with the "plugin already exists" error; no model    *)
(* call follows the metadata call and no proposal is stored.               *)
(* ---------------------------------------------------------------------- *)
C12_ExistingNameStopsStart ==
    /\ [][\A t \in Tasks :
            (pc[t] = "s_meta" /\ pc'[t] \notin {"s_meta", "done"}) =>
                LET n == loc'[t].plugin_name
                IN  /\ n = Namespaced(sanitize_plugin_name(n))
                    /\ pending' = pending
                    /\ pc'[t] = IF get_plugins_directory /\ n \in artifacts
                                THEN "s_exists_send" ELSE "s_doc"]_vars
    /\ [][\A t \in Tasks :
            (pc[t] = "s_exists_send" /\ pc'[t] # "s_exists_send") =>
                /\ pc'[t] = "done"
                /\ result'[t] = Failure("exists")
                /\ {"meta", "exists"} \subseteq calls'[t]
                /\ calls'[t] \cap ({"doc"} \cup LateCalls) = {}
                /\ log'[t] = <<>>
                /\ pending' = pending]_vars

C12_Witness ==
    \E t \in Tasks :
        /\ kind[t] = "start"
        /\ pc[t] = "done" /\ result[t] = Failure("exists")
        /\ {"meta", "exists"} \subseteq calls[t]
        /\ calls[t] \cap ({"doc"} \cup LateCalls) = {}
        /\ ~pending.active


(* ---------------------------------------------------------------------- *)
(* C13: a flow goes from REVIEW to MATERIALIZE only when its latest        *)
(* normalized review has score >= threshold and approved = true; a flow    *)
(* whose loop ends with either predicate failing returns the review        *)
(* failure with the latest review's reason and never materializes.  Start  *)
(* and confirm alike.                                                      *)
(* ---------------------------------------------------------------------- *)
C13_MaterializeOnlyAfterPass ==
    \A t \in Tasks :
        /\ (pc[t] \in AfterReviewStage \/ "materialize" \in calls[t]) =>
              /\ EndsWithVerdict(t)
              /\ Passes(LastReview(t))
              /\ (pc[t] = "done" /\ result[t].success =>
                      result[t].satisfaction_score = LastReview(t).satisfaction_score)
        /\ (pc[t] = "done" /\ EndsWithVerdict(t) /\ ~Passes(LastReview(t))) =>
              /\ result[t] = [Failure("review_failed") EXCEPT
                                 !.reason = LastReview(t).reason]
              /\ "materialize" \notin calls[t]

C13_Witness ==
    \E t \in Tasks :
        /\ kind[t] = "confirm" /\ pc[t] = "done"
        /\ EndsWithVerdict(t) /\ LastReview(t).satisfaction_score >= DefaultThreshold
        /\ ~LastReview(t).approved
        /\ result[t].error = "review_failed" /\ result[t].reason = LastReview(t).reason


(* ---------------------------------------------------------------------- *)
(* C14: with max_retries >= 0 the REVIEW stage of one flow makes at most   *)
(* max_retries + 1 calls of the model's review-code operation, whatever    *)
(* the calls do (pass, fail, raise).  As stated this does not hold: the    *)
(* retry wrapper repeats an initial review call that raises.               *)
(* ---------------------------------------------------------------------- *)
C14_ReviewCallsWithinBudget ==
    \A t \in Tasks :
        cfg.max_retries >= 0 => Cardinality(ReviewCalls(t)) <= cfg.max_retries + 1

(* C14, amended: with max_retries >= 0 one flow decides on at most         *)
(* max_retries + 1 reviews and makes at most max_retries fix calls; it     *)
(* makes at most max_retries + 1 review-code calls when none raises, and   *)
(* at most max_retries + 3 (the wrapper's attempts) otherwise.             *)
C14_ReviewCallsBounded ==
    \A t \in Tasks :
        cfg.max_retries >= 0 =>
            /\ Cardinality(FixCalls(t)) <= cfg.max_retries
            /\ Cardinality(Verdicts(t)) <= cfg.max_retries + 1
            /\ Cardinality(ReviewCalls(t)) <= cfg.max_retries + InnerRetries
            /\ (Raises(t) = {} => Cardinality(ReviewCalls(t)) <= cfg.max_retries + 1)

C14_Witness ==
    \E t \in Tasks :
        /\ cfg.max_retries >= 1
        /\ Cardinality(FixCalls(t)) = cfg.max_retries
        /\ Cardinality(ReviewCalls(t)) = cfg.max_retries + InnerRetries
        /\ pc[t] = "done" /\ result[t].error = "review_failed"


(* ---------------------------------------------------------------------- *)
(* C15: with max_retries = -1 the loop never ends on budget: the review    *)
(* failure is never returned and the stage is left only on a review with   *)
(* score >= threshold and approved.  When the first passing review is the  *)
(* N-th the model returned (N - 1 within the budget when there is one),    *)
(* exactly N reviews and N - 1 fixes were made; a passing first review     *)
(* means no fix, and the score reported is that review's.                  *)
(* ---------------------------------------------------------------------- *)
C15_UnlimitedEndsOnPassOnly ==
    \A t \in Tasks :
        /\ cfg.max_retries = -1 => result[t].error # "review_failed"
        /\ (/\ pc[t] \in AfterReviewStage \/ (pc[t] = "done" /\ result[t].success)
            /\ Raises(t) = {}) =>
              /\ Alternating(t)
              /\ Passes(LastReview(t))
              /\ \A i \in ReviewCalls(t) \ {Len(log[t])} : ~Passes(log[t][i].review)
              /\ Cardinality(ReviewCalls(t)) = Cardinality(FixCalls(t)) + 1
              /\ (Passes(log[t][1].review) => FixCalls(t) = {})
              /\ (pc[t] = "done" =>
                      result[t].satisfaction_score = LastReview(t).satisfaction_score)

C15_Witness ==
    \E t \in Tasks :
        /\ cfg.max_retries = -1
        /\ pc[t] = "done" /\ result[t].success
        /\ Raises(t) = {}
        /\ Cardinality(ReviewCalls(t)) = 2 /\ Cardinality(FixCalls(t)) = 1
        /\ ~Passes(log[t][1].review) /\ Passes(log[t][3].review)

(* ---------------------------------------------------------------------- *)
(* C16: when every review misses the stopping condition and                *)
(* max_retries = k >= 0, exactly k fix calls are made, each followed by    *)
(* one review, fix and review taking turns, and the call ends with the     *)
(* review failure carrying the last review's reason.                       *)
(* ---------------------------------------------------------------------- *)
C16_ExhaustedAfterKFixes ==
    \A t \in Tasks :
        (/\ cfg.max_retries >= 0
         /\ pc[t] = "done" /\ log[t] # <<>>
         /\ Raises(t) = {}
         /\ \A i \in ReviewCalls(t) : ~Passes(log[t][i].review)
         /\ result[t].error # "exception") =>
            /\ Alternating(t)
            /\ Cardinality(FixCalls(t)) = cfg.max_retries
            /\ Cardinality(ReviewCalls(t)) = cfg.max_retries + 1
            /\ result[t] = [Failure("review_failed") EXCEPT
                               !.reason = LastReview(t).reason]

C16_Witness ==
    \E t \in Tasks :
        /\ cfg.max_retries = MaxRetries
        /\ pc[t] = "done" /\ Raises(t) = {}
        /\ Len(log[t]) = 2 * MaxRetries + 1
        /\ log[t][1].review.reason # LastReview(t).reason
        /\ result[t].error = "review_failed"
        /\ result[t].reason = LastReview(t).reason


(* ---------------------------------------------------------------------- *)
(* C17: a review-code call that raises never ends the flow with that       *)
(* exception: the first review and every review after a fix are retried    *)
(* and, when every attempt raises, replaced by the canned failing review.  *)
(* The code sends only the first review through the retry wrapper; the     *)
(* review after a fix calls the model directly, so its exception ends the  *)
(* flow.                                                                   *)
(* ---------------------------------------------------------------------- *)
C17_ReviewRaiseNeverAborts ==
    \A t \in Tasks :
        (pc[t] = "done" /\ log[t] # <<>> /\ Len(log[t]) \in Raises(t)) =>
            result[t].error # "exception"

(* ---------------------------------------------------------------------- *)
(* C18: a flow that ends with the review failure (its budget used up and   *)
(* its last review missing the stopping condition) has written nothing:    *)
(* no artifact directory, no package file, no install call.                *)
(* ---------------------------------------------------------------------- *)
C18_ExhaustedWritesNothing ==
    /\ [](\A t \in Tasks :
            (\/ result[t].error = "review_failed"
             \/ /\ cfg.max_retries >= 0
                /\ EndsWithVerdict(t) /\ ~Passes(LastReview(t))
                /\ Cardinality(FixCalls(t)) >= cfg.max_retries) =>
                /\ pc[t] = "done"
                /\ result[t].error = "review_failed" /\ ~result[t].success
                /\ calls[t] \cap WriteCalls = {}
                /\ t \notin zips)
    /\ [][\A t \in Tasks :
            (pc[t] # "done" /\ pc'[t] = "done" /\ result'[t].error = "review_failed") =>
                artifacts' = artifacts /\ zips' = zips]_vars
    /\ [][artifacts' # artifacts =>
            \E t \in Tasks : pc[t] = "step5_send" /\ "materialize" \in calls'[t]]_vars
    /\ [][\A t \in Tasks : (t \in zips' /\ t \notin zips) => "zip" \in calls'[t]]_vars

C18_Witness ==
    \E t \in Tasks :
        /\ pc[t] = "done" /\ result[t].error = "review_failed"
        /\ FixCalls(t) # {}
        /\ calls[t] \cap WriteCalls = {}
        /\ artifacts = {}


(* ---------------------------------------------------------------------- *)
(* C19: installation is attempted only with an install client and a        *)
(* configured credential, and only after MATERIALIZE succeeded; an install *)
(* that reports failure or raises leaves the artifact on disk, and the     *)
(* call still returns success = true with the failure in install_error.    *)
(* ---------------------------------------------------------------------- *)
C19_InstallIsSecondary ==
    \A t \in Tasks :
        (calls[t] \cap {"zip", "install", "status"} # {}
             \/ pc[t] \in {"zip", "install", "status"}) =>
            /\ cfg.installer /\ cfg.api_password
            /\ "materialize" \in calls[t]
            /\ result[t].success
            /\ result[t].plugin_name \in artifacts
            /\ (pc[t] = "done" /\ "install" \in calls[t] /\ ~result[t].installed
                    => result[t].install_error = "raised")
            /\ (pc[t] = "done" /\ result[t].installed /\ ~result[t].install_success
                    => result[t].install_error # "")

C19_Witness ==
    \E t \in Tasks :
        /\ pc[t] = "done" /\ result[t].success
        /\ "install" \in calls[t]
        /\ result[t].installed /\ ~result[t].install_success
        /\ result[t].install_error = "reported"
        /\ result[t].plugin_name \in artifacts

(* ---------------------------------------------------------------------- *)
(* C20: a temporary package file made by the INSTALL stage is gone when    *)
(* the call returns, whatever the install call and the status check did;   *)
(* an error of the deletion itself leaves the result as it was.  The code  *)
(* deletes the file on the paths without an exception only, and records a  *)
(* failed deletion as install_error.                                       *)
(* ---------------------------------------------------------------------- *)
C20_PackageFileRemoved ==
    \A t \in Tasks : pc[t] = "done" => t \notin zips

(* ---------------------------------------------------------------------- *)
(* C21: the post-install status check is called only after the install     *)
(* client reported success, and whatever it reports (error logs that go    *)
(* out as a warning included) leaves install_success true and the result   *)
(* a success: from the status check on, up to and including the returned   *)
(* result, the call has installed = install_success = success = true.      *)
(* ---------------------------------------------------------------------- *)
C21_StatusCheckAfterSuccess ==
    \A t \in Tasks :
       (pc[t] \in {"status", "warn_send"} \/ "status" \in calls[t]) =>
          /\ "install" \in calls[t]
          /\ result[t].installed
          /\ result[t].install_success
          /\ result[t].success

(* The status check reported error logs and the warning is being sent.     *)
C21_Witness ==
    \E t \in Tasks :
       /\ pc[t] = "warn_send"
       /\ "status" \in calls[t]
       /\ result[t].install_success
       /\ result[t].success
(* ---------------------------------------------------------------------- *)
(* C22: a failure in MATERIALIZE (no plugins root, or a write error)       *)
(* aborts the flow with success = false.  The failed call has made no      *)
(* package, install or status call and holds no package file; the step     *)
(* that fails removes no directory (what was written stays), makes no      *)
(* package file and leaves the status idle; without a plugins root the     *)
(* stage cannot but fail.                                                  *)
(* ---------------------------------------------------------------------- *)
C22_MaterializeFailureAborts ==
    /\ [](\A t \in Tasks :
            (pc[t] = "done" /\ "materialize" \in calls[t] /\ ~result[t].success) =>
               /\ result[t].error = "exception"
               /\ calls[t] \cap {"zip", "install", "status"} = {}
               /\ ~result[t].installed
               /\ t \notin zips)
    /\ [][\A t \in Tasks :
            (pc[t] = "step5_send" /\ pc'[t] # pc[t]) =>
               /\ (~env.plugins_root => pc'[t] = "done" /\ ~result'[t].success)
               /\ (pc'[t] = "done" /\ ~result'[t].success =>
                      /\ artifacts \subseteq artifacts'
                      /\ zips' = zips
                      /\ IdleShape(status'))]_vars

(* A materialization failed and the directory it had made is still there.  *)
C22_Witness ==
    \E t \in Tasks :
       /\ pc[t] = "done"
       /\ "materialize" \in calls[t]
       /\ ~result[t].success
       /\ FinalName([name |-> <<"9">>]) \in artifacts
(* ---------------------------------------------------------------------- *)
(* C23: a start call whose description fails the validity check (stripped  *)
(* length below 5, or a sensitive word in it) never starts a generation:   *)
(* it is never suspended inside the flow and never makes a model call.     *)
(* generate_plugin_flow does not call validate_plugin_description (nothing *)
(* does), so such a call sets the flag and runs the stages like any other. *)
(* ---------------------------------------------------------------------- *)
C23_InvalidDescriptionNeverStarts ==
    \A t \in Tasks :
       (kind[t] = "start" /\ ~validate_plugin_description(args[t].description)) =>
          /\ ~Suspended(t)
          /\ calls[t] \cap ModelCalls = {}
(* ---------------------------------------------------------------------- *)
(* C24: for every input string sanitize_plugin_name returns a non-empty    *)
(* identifier matching ^[a-z][a-z0-9_]*$: the characters outside           *)
(* [A-Za-z0-9_] are removed, a non-empty remainder that does not start     *)
(* with a letter gets the prefix plugin_, the result is lower-cased, and   *)
(* an input of which nothing remains yields unnamed_plugin; the final      *)
(* identifier of the orchestrator is such an identifier too and starts     *)
(* with astrbot_plugin_.                                                   *)
(* ---------------------------------------------------------------------- *)
C24_SanitizedIdentifier ==
    LET IsIdentifier(s) ==
            /\ s # <<>>
            /\ s[1] \in LowerChars
            /\ \A i \in 1..Len(s) : s[i] \in LowerChars \cup DigitChars \cup {"_"}
    IN
    /\ probe.fn = "sanitize_plugin_name" /\ probe.stage \in {"sanitized", "final"} =>
          LET kept == SelectSeq(probe.input, IsWordChar)
              out == probe.sanitized
          IN  /\ IsIdentifier(out)
              /\ kept = <<>> => out = UnnamedPlugin
              /\ kept # <<>> /\ IsAlpha(kept[1]) => out = LowerCase(kept)
              /\ kept # <<>> /\ ~IsAlpha(kept[1]) => out = PluginPrefix \o LowerCase(kept)
    /\ probe.fn = "sanitize_plugin_name" /\ probe.stage = "final" =>
          /\ IsIdentifier(probe.final)
          /\ StartsWith(probe.final, NamespacePrefix)
          /\ probe.final \in {probe.sanitized, NamespacePrefix \o probe.sanitized}

(* A name with a leading digit, a stripped character and a capital.        *)
C24_Witness ==
    /\ probe.fn = "sanitize_plugin_name" /\ probe.stage = "final"
    /\ probe.input = <<"9", "-", "W">>
    /\ probe.sanitized = PluginPrefix \o <<"9", "w">>
    /\ probe.final = NamespacePrefix \o PluginPrefix \o <<"9", "w">>
(* ---------------------------------------------------------------------- *)
(* C25: materializing twice with the same name, metadata, code and         *)
(* document is idempotent.  The second call succeeds on the directory the  *)
(* first one made and leaves the file system as the first left it; in a    *)
(* directory that did not exist before, that is the source file with the   *)
(* code, the metadata descriptor, the documentation, and the dependency    *)
(* manifest exactly when the dependencies are non-empty and                *)
(* allow_dependencies is on.                                               *)
(* ---------------------------------------------------------------------- *)
C25_MaterializeIdempotent ==
    probe.fn = "_create_plugin_files" /\ probe.stage \in {"once", "twice"} =>
       LET d == Namespaced(probe.plugin_name)
           content == IF Tag(probe.metadata.metadata) = "dict" THEN probe.metadata.metadata[2]
                      ELSE [repo_url |-> None, dependencies |-> None]
           deps == Get(content.dependencies, <<>>)
           manifest == deps # <<>> /\ probe.config.allow_dependencies
       IN  /\ probe.stage = "twice" => probe.fs = probe.first
           /\ d \in DOMAIN probe.fs
           /\ probe.fs[d]["main.py"] = probe.code
           /\ probe.fs[d]["metadata.yaml"] = probe.first[d]["metadata.yaml"]
           /\ probe.fs[d]["README.md"] = probe.first[d]["README.md"]
           /\ manifest => probe.fs[d]["requirements.txt"] = deps
           /\ d \notin DOMAIN probe.before =>
                 DOMAIN probe.fs[d] =
                    {"main.py", "metadata.yaml", "README.md"}
                    \cup (IF manifest THEN {"requirements.txt"} ELSE {})

(* Materialized twice into a fresh directory, with a dependency manifest.  *)
C25_Witness ==
    /\ probe.fn = "_create_plugin_files" /\ probe.stage = "twice"
    /\ probe.before = <<>>
    /\ "requirements.txt" \in DOMAIN probe.fs[Namespaced(probe.plugin_name)]
    /\ probe.fs = probe.first
(* ---------------------------------------------------------------------- *)
(* C26: for every raw review map the normalized ReviewResult has           *)
(* satisfaction_score an integer in 0..100, and 0 when the raw score is    *)
(* missing or does not read as a number.  The code converts with           *)
(* int(float(x)) and does not clamp: a raw score of 150 or -5 is kept.     *)
(* ---------------------------------------------------------------------- *)
C26_ScoreInRange ==
    probe.fn = "normalize_review_result" /\ probe.stage = "normalized" =>
       LET raw == RawScore(probe.input)
           numeric == \/ Tag(raw) \in {"num", "bool"}
                      \/ Tag(raw) = "str" /\ IsDecimal(raw[2])
       IN  /\ probe.output.satisfaction_score \in 0..100
           /\ ~numeric => probe.output.satisfaction_score = 0

(* ---------------------------------------------------------------------- *)
(* C27: for every raw review map the normalized ReviewResult has approved  *)
(* a boolean (a string counts as true only when it is one of the tokens,   *)
(* a missing value falls back to the alternate keys and then to false),    *)
(* and issues and suggestions are lists that are non-empty whenever the    *)
(* reason is.  For a reason that is no string and no suggestions the code  *)
(* raises at line 160 and there is no normalized result.                   *)
(* ---------------------------------------------------------------------- *)
C27_ApprovedAndLists ==
    probe.fn = "normalize_review_result" /\ probe.stage # "input" =>
       /\ probe.stage = "normalized"
       /\ LET raw == probe.input
              out == probe.output
              a0 == RawApproved(raw)
          IN  /\ out.approved \in BOOLEAN
              /\ Tag(a0) = "str" =>
                    (out.approved <=> LowerCase(Strip(a0[2])) \in TruthyTokens)
              /\ Tag(a0) = "none" => ~out.approved
              /\ Truthy(RawReason(raw)) =>
                    /\ out.issues # <<>>
                    /\ out.suggestions # <<>>
(* ---------------------------------------------------------------------- *)
(* C28: start_time is set when a flow sets is_generating and is empty      *)
(* again once that flow has completed: whenever no flow is running (no     *)
(* call is inside the guarded part of start or confirm), start_time is     *)
(* empty.  The finally clauses (354-358, 612-616) reset the flag, the      *)
(* step, the percentage and the name, and leave start_time as it is.       *)
(* ---------------------------------------------------------------------- *)
C28_StartTimeCleared ==
    (\A t \in Tasks : ~(Suspended(t) /\ loc[t].guarded)) => status.start_time = ""
(* ---------------------------------------------------------------------- *)
(* C29: a code-generation call that raises aborts the flow (a start under  *)
(* auto-approve, or a confirm) with a failure result carrying that error.  *)
(* The call has made no review, fix, materialize or install call and holds *)
(* no package file; the step in which the call raises writes nothing,      *)
(* stores no proposal and leaves the status idle.                          *)
(* ---------------------------------------------------------------------- *)
C29_CodeFailureAborts ==
    /\ [](\A t \in Tasks :
            (pc[t] = "done" /\ result[t].error = "code_failed") =>
               /\ ~result[t].success
               /\ "code" \in calls[t]
               /\ calls[t] \cap ({"review", "fix"} \cup WriteCalls) = {}
               /\ log[t] = <<>>
               /\ t \notin zips)
    /\ [][\A t \in Tasks :
            (pc[t] = "code" /\ pc'[t] = "done") =>
               /\ result'[t] = Failure("code_failed")
               /\ artifacts' = artifacts
               /\ zips' = zips
               /\ pending' = pending
               /\ IdleShape(status')]_vars

(* A confirm whose code-generation call raised.                            *)
C29_Witness ==
    \E t \in Tasks :
       /\ pc[t] = "done"
       /\ kind[t] = "confirm"
       /\ result[t].error = "code_failed"
       /\ "code" \in calls[t]

(* ---------------------------------------------------------------------- *)
(* C30: when the directory resolver reports the layout invalid, a start    *)
(* that passes the entry guard fails with the directory-invalid error      *)
(* before any model call: it makes no model call and writes nothing,       *)
(* stores no proposal, and returns with the status reset to idle.          *)
(* ---------------------------------------------------------------------- *)
C30_InvalidLayoutStopsStart ==
    /\ [](\A t \in Tasks :
            (pc[t] = "s_dir_send" \/ (pc[t] = "done" /\ result[t].error = "dir_invalid")) =>
               /\ kind[t] = "start"
               /\ calls[t] \cap (ModelCalls \cup WriteCalls) = {}
               /\ ~result[t].success
               /\ ~result[t].pending_confirmation
               /\ t \notin zips)
    /\ [][\A t \in Tasks :
            /\ (~env.layout_valid /\ ~EntryGuard(status) /\ Calls(t, "start")) =>
                  /\ pc'[t] = "s_dir_send"
                  /\ pending' = pending
                  /\ artifacts' = artifacts
            /\ (pc[t] = "s_dir_send" /\ pc'[t] # pc[t]) =>
                  /\ pc'[t] = "done"
                  /\ result'[t] = Failure("dir_invalid")
                  /\ pending' = pending
                  /\ artifacts' = artifacts
                  /\ IdleShape(status')]_vars

(* A start returned the directory-invalid error.                           *)
C30_Witness ==
    \E t \in Tasks :
       /\ pc[t] = "done"
       /\ kind[t] = "start"
       /\ ~env.layout_valid
       /\ result[t].error = "dir_invalid"
       /\ IdleShape(status)

(* ---------------------------------------------------------------------- *)
(* C31: whenever a start or confirm call is suspended on a model or        *)
(* install-client call (the refinement call of a confirm with feedback     *)
(* included), is_generating is true.  continue_plugin_generation sets the  *)
(* flag at line 474, after the refinement call (417), and the finally      *)
(* clause of one call clears the flag under a call that is still running.  *)
(* ---------------------------------------------------------------------- *)
C31_FlagWhileSuspended ==
    \A t \in Tasks :
       pc[t] \in StageAwaits \cup {"zip", "c_refine"} => status.is_generating
(* ---------------------------------------------------------------------- *)
(* C32: in every reachable state is_generating = false implies the idle    *)
(* shape (current_step = 0, progress_percentage = 0, plugin_name empty),   *)
(* and progress_percentage = floor(current_step * 100 / 6) with            *)
(* current_step in 0..5.  A call that runs on after another call's finally *)
(* clause cleared the flag goes on updating the step, the percentage and   *)
(* the name.                                                               *)
(* ---------------------------------------------------------------------- *)
C32_IdleShapeWhenNotGenerating ==
    /\ ~status.is_generating => IdleShape(status)
    /\ status.current_step \in 0..(TotalSteps - 1)
    /\ status.progress_percentage = (status.current_step * 100) \div TotalSteps
(* ---------------------------------------------------------------------- *)
(* C33: no flow materializes into an artifact directory that existed when  *)
(* its MATERIALIZE stage began: a name that came to exist after the        *)
(* collision check ends the flow with the name-collision failure and the   *)
(* existing artifact is not written.  The code checks the name in META and *)
(* after a refinement only; create_plugin_directory makes the directory    *)
(* with exist_ok and _create_plugin_files opens the files for writing.     *)
(* ---------------------------------------------------------------------- *)
C33_NoOverwrite ==
    [][\A t \in Tasks :
        (/\ pc[t] = "step5_send" /\ pc'[t] # pc[t]
         /\ check_plugin_exists(loc[t].plugin_name)) =>
            /\ pc'[t] = "done"
            /\ result'[t] = Failure("exists")]_vars
(* ---------------------------------------------------------------------- *)
(* C34: a confirm call that finds an active proposal clears the pending    *)
(* slot in the step that reads it, and no later step of a confirm call     *)
(* (reject, refinement failure, refined-name collision, code or review     *)
(* failure, success) writes the slot: a proposal is never restored.  The   *)
(* slot becomes active again only when a start stores a proposal at the    *)
(* confirmation gate, and until then a confirm gets "no pending task".     *)
(* ---------------------------------------------------------------------- *)
C34_ProposalNeverRestored ==
    [][/\ \A t \in Tasks :
            /\ (Calls(t, "confirm") /\ pending.active) =>
                  /\ pending' = NoPending
                  /\ pc'[t] \in {"c_cancel_send", "c_refine", "code"}
            /\ (Calls(t, "confirm") /\ ~pending.active) =>
                  /\ pc'[t] = "done"
                  /\ result'[t] = Failure("no_pending")
                  /\ pending' = pending
            /\ (kind[t] = "confirm" /\ Suspended(t) /\ Locals(t)' # Locals(t)) =>
                  pending' = pending
       /\ (pending'.active /\ pending' # pending) =>
            \E t \in Tasks :
               kind[t] = "start" /\ pc[t] = "s_doc" /\ pc'[t] = "s_pending_send"]_vars

(* A confirm with feedback failed in the refinement, and the confirm after *)
(* it found no proposal.                                                   *)
C34_Witness ==
    \E t, u \in Tasks :
       /\ t # u
       /\ kind[t] = "confirm" /\ pc[t] = "done"
       /\ result[t].error = "refine_failed"
       /\ kind[u] = "confirm" /\ pc[u] = "done"
       /\ result[u] = Failure("no_pending")
       /\ uses = 1
       /\ ~pending.active
(* ---------------------------------------------------------------------- *)
(* C35: the plugin name is stable across the handshake.  Sanitizing a      *)
(* sanitized name changes nothing and the namespace token is put in front  *)
(* only if absent, so the name a confirm without feedback computes from    *)
(* the stored proposal (used for the directory and reported in the result) *)
(* is the name stage META stored and checked.                              *)
(* ---------------------------------------------------------------------- *)
C35_NameStable ==
    probe.fn = "sanitize_plugin_name" /\ probe.stage \in {"final", "resumed"} =>
       /\ sanitize_plugin_name(probe.sanitized) = probe.sanitized
       /\ sanitize_plugin_name(probe.final) = probe.final
       /\ StartsWith(probe.final, NamespacePrefix)
       /\ probe.stage = "resumed" =>
             /\ probe.resumed = probe.final
             /\ create_plugin_directory({}, probe.resumed) = {probe.final}

(* A name that already carried the namespace token, in capitals and with a *)
(* character that is stripped.                                             *)
C35_Witness ==
    /\ probe.fn = "sanitize_plugin_name" /\ probe.stage = "resumed"
    /\ probe.input = <<"A">> \o Tail(NamespacePrefix) \o <<"-">>
    /\ probe.final = NamespacePrefix
    /\ probe.resumed = NamespacePrefix
(* ---------------------------------------------------------------------- *)
(* C36: with max_retries >= 0 and every collaborator call returning or     *)
(* raising in the end, every start and every confirm call returns, and     *)
(* once all calls have returned is_generating is false.                    *)
(* ---------------------------------------------------------------------- *)
C36_CallsReturn ==
    /\ \A t \in Tasks : (cfg.max_retries >= 0 /\ Suspended(t)) ~> (pc[t] = "done")
    /\ []((\A t \in Tasks : ~Suspended(t)) => ~status.is_generating)

(* A call used its whole budget of fixes, waited for the retried review    *)
(* call, and has returned; no call is running and the flag is clear.       *)
C36_Witness ==
    \E t \in Tasks :
       /\ cfg.max_retries = MaxRetries
       /\ pc[t] = "done"
       /\ Cardinality(FixCalls(t)) = MaxRetries
       /\ Raises(t) # {}
       /\ \A u \in Tasks : ~Suspended(u)
       /\ ~status.is_generating

(* C37: with admin_only enabled (set, or absent and so by default), a      *)
(* command whose sender is recognised as administrator neither by the     *)
(* event's is_admin, nor by its role, nor by the host's administrator list *)
(* is answered with the refusal and nothing else: its handler returns at   *)
(* once, has made no package, install or delete call and no credential     *)
(* write, the stored credentials are as before, and the handler never acts *)
(* again.                                                                  *)
C37_NonAdminRefused ==
    [][\A h \in DOMAIN probe.handler :
         LET was == probe.handler[h]
             now == probe'.handler[h]
         IN  /\ (/\ was.pc = "idle" /\ now.pc # "idle"
                 /\ probe.admin_only \in {None, <<"bool", TRUE>>}
                 /\ now.event.is_admin # "yes"
                 /\ ~(/\ Tag(now.event.role) = "str"
                      /\ LowerCase(now.event.role[2]) = <<"a", "d", "m", "i", "n">>)
                 /\ now.event.sender \notin probe.admins)
                => /\ now.pc = "done" /\ now.reply = "refused"
                   /\ now.zips = 0 /\ now.installs = 0 /\ now.deletes = 0
                   /\ now.saves = 0
                   /\ probe'.saved_credentials = probe.saved_credentials
             /\ (was.pc = "done" /\ was.reply = "refused") => now = was]_vars

(* C37: an administrator has stored new credentials through one command    *)
(* while another command, sent by somebody the event calls no              *)
(* administrator and the host does not list, was refused.                  *)
C37_Witness ==
    /\ probe.fn = "commands"
    /\ \E h, g \in DOMAIN probe.handler :
         /\ probe.handler[h].command = "uninstall"
         /\ probe.handler[h].event =
                [is_admin |-> "absent", role |-> <<"str", <<"u", "s", "e", "r">>>>,
                 sender |-> "u2"]
         /\ probe.handler[h].pc = "done" /\ probe.handler[h].reply = "refused"
         /\ probe.handler[g].reply = "saved" /\ probe.handler[g].saves = 1

(* C38: in the selection session, '0' or 'q' ends the session without a    *)
(* package or install call; an index of an existing plugin ends it without *)
(* a call when no credentials are configured and otherwise makes one       *)
(* package call, then at most one install call, and then ends it (the      *)
(* install client returning); any other input makes no call and leaves the *)
(* session waiting. A session that has ended stays ended.                  *)
C38_SelectSession ==
    /\ [][\A h \in DOMAIN probe.handler :
            LET was == probe.handler[h]
                now == probe'.handler[h]
                typed == Strip(now.input)
                digits == Unsigned(typed)
                index_exists ==
                    /\ digits # <<>> /\ typed[1] # "-"
                    /\ \A i \in 1..Len(digits) : IsDigit(digits[i])
                    /\ Decimal(digits) \in 1..probe.plugins
                configured ==
                    probe.saved_credentials.api_password_md5 # <<>> \/ probe.config_password
            IN  /\ (was.pc = "sel_wait" /\ now # was /\ now.reply # "error") =>
                     IF typed \in {<<"0">>, <<"q">>}
                     THEN now.pc = "done" /\ now.zips = 0 /\ now.installs = 0
                     ELSE IF index_exists /\ configured
                     THEN now.pc = "sel_zip" /\ now.zips = 1 /\ now.installs = 0
                     ELSE IF index_exists
                     THEN now.pc = "done" /\ now.zips = 0 /\ now.installs = 0
                     ELSE now.pc = "sel_wait" /\ now.zips = 0 /\ now.installs = 0
                /\ (was.pc = "sel_zip" /\ now # was) =>
                     /\ now.pc \in {"sel_install", "done"} /\ now.zips = 1
                     /\ now.installs = IF now.pc = "done" THEN 0 ELSE 1
                /\ (was.pc = "sel_install" /\ now # was) =>
                     now.pc = "done" /\ now.zips = 1 /\ now.installs = 1
                /\ (was.command = "select" /\ was.pc = "done") => now = was]_vars
    /\ \A h \in 1..NumHandlers :
         (h \in DOMAIN probe.handler /\ probe.handler[h].pc \in {"sel_zip", "sel_install"})
             ~> (h \in DOMAIN probe.handler /\ probe.handler[h].pc = "done")

(* C38: a session was answered with the index of the last plugin, the      *)
(* plugin was packaged once and installed once, and the session has ended. *)
C38_Witness ==
    /\ probe.fn = "commands"
    /\ \E h \in DOMAIN probe.handler :
         /\ probe.handler[h].command = "select" /\ probe.handler[h].pc = "done"
         /\ Strip(probe.handler[h].input) = <<Digits[MaxPlugins + 1]>>
         /\ probe.handler[h].reply = "installed"
         /\ probe.handler[h].zips = 1 /\ probe.handler[h].installs = 1

====
